---------------------------- MODULE Spec2Model ----------------------------
(***************************************************************************)
(* LoRa audio transfer: the packet codec and checksums (packet.h,          *)
(* loraProtocol.cpp), the receiver's reassembly state machine              *)
(* (LoRa-32-V2.ino) and the sender's fragmentation engine                  *)
(* (LoraManager.cpp, LoRa-32-V3.ino).                                      *)
(*                                                                         *)
(* A frame is the sequence of bytes (0..255) the radio carries.  uint8 and *)
(* uint16 values are naturals; a uint32 checksum is the pair <<hi, lo>> of *)
(* its 16-bit halves, since a 32-bit unsigned value does not fit the       *)
(* integers of TLC.  Multi-byte fields are little-endian, as memcpy of a   *)
(* packed struct lays them out on the ESP32.                               *)
(***************************************************************************)
EXTENDS Integers, Sequences, FiniteSets, TLC

----------------------------------------------------------------------------
(* packet.h: protocol constants *)

LORA_PROTOCOL_VERSION == 1
CODEC_RAW_PCM == 0
CODEC_COMPRESSED == 1

LORA_MAX_PAYLOAD == 255
LORA_HEADER_SIZE == 10
LORA_MAX_DATA_PAYLOAD == LORA_MAX_PAYLOAD - LORA_HEADER_SIZE

PKT_AUDIO_START == 1
PKT_AUDIO_DATA == 2
PKT_AUDIO_END == 3
PKT_ACK == 4

ACK_STATUS_OK == 0
ACK_STATUS_CRC_ERR == 1
ACK_STATUS_MISSING == 2

\* sizeof of the packed payload structs
SIZEOF_AudioStartPayload == 13
SIZEOF_AudioEndPayload == 7
SIZEOF_AckPayload == 3

----------------------------------------------------------------------------
(* C integer arithmetic on bytes and 16-bit words *)

Min(a, b) == IF a < b THEN a ELSE b

RECURSIVE XorBits(_, _)
XorBits(a, b) ==
  IF a = 0 THEN b
  ELSE IF b = 0 THEN a
  ELSE (((a % 2) + (b % 2)) % 2) + 2 * XorBits(a \div 2, b \div 2)

\* a ^ b on 4-bit operands, tabulated once from XorBits
Xor4 == [a \in 0..15 |-> [b \in 0..15 |-> XorBits(a, b)]]

\* a ^ b on 16-bit operands, nibble by nibble
BitXor(a, b) ==
  Xor4[a % 16][b % 16]
  + 16 * Xor4[(a \div 16) % 16][(b \div 16) % 16]
  + 256 * Xor4[(a \div 256) % 16][(b \div 256) % 16]
  + 4096 * Xor4[(a \div 4096) % 16][(b \div 4096) % 16]

\* little-endian layout of a uint16 and of a uint32 given as <<hi, lo>>
U16LE(v) == <<v % 256, (v \div 256) % 256>>
U32LE(w) == U16LE(w[2]) \o U16LE(w[1])
\* the uint16 at 0-based byte offset off of buf
RdU16(buf, off) == buf[off + 1] + 256 * buf[off + 2]
RdU32(buf, off) == <<RdU16(buf, off + 2), RdU16(buf, off)>>
\* a size that fits 31 bits, widened to uint32
ToU32(n) == <<n \div 65536, n % 65536>>

----------------------------------------------------------------------------
(* packet.h: nibble helpers *)

\* fault: the two nibbles in each other's place
makeVerType_TypeFirst(version, type) == ((type % 16) * 16) + (version % 16)

makeVerType(version, type) == ((version % 16) * 16) + (type % 16)
getVersion(ver_type) == (ver_type \div 16) % 16

getType(ver_type) == ver_type % 16

makeSFCR(sf, cr) == ((sf % 16) * 16) + (cr % 16)
getSF(sf_cr) == (sf_cr \div 16) % 16
getCodingRate(sf_cr) == sf_cr % 16

----------------------------------------------------------------------------
(* loraProtocol.cpp: header builder *)

buildHeader(type, src, dst, exp_id, session, seq, tx_pow, sf, cr) ==
  [ver_type   |-> makeVerType(LORA_PROTOCOL_VERSION, type),
   src_id     |-> src,
   dst_id     |-> dst,
   exp_id     |-> exp_id,
   session_id |-> session,
   seq_num    |-> seq,
   tx_pow     |-> tx_pow,
   sf_cr      |-> makeSFCR(sf, cr)]

----------------------------------------------------------------------------
(* loraProtocol.cpp: CRC *)

\* one pass of the inner loop of crc16 on the 16-bit register
\* In the loops below each new value of the register is bound as the element
\* of a one-element set, so that it is computed once.

Crc16Step(crc) ==
  IF crc >= 32768 THEN BitXor((crc * 2) % 65536, 4129) ELSE (crc * 2) % 65536

RECURSIVE Crc16Bits(_, _)
Crc16Bits(crc, j) ==
  IF j = 0 THEN crc
  ELSE CHOOSE r \in {Crc16Bits(n, j - 1) : n \in {Crc16Step(crc)}} : TRUE

\* the outer loop over data[lo..hi] (1-based), its range halved so that the
\* evaluation stays shallow; the bytes are taken in order
RECURSIVE Crc16Loop(_, _, _, _)
Crc16Loop(crc, data, lo, hi) ==
  IF lo > hi THEN crc
  ELSE IF lo = hi
       THEN CHOOSE r \in {Crc16Bits(c, 8)
                             : c \in {BitXor(crc, data[lo] * 256)}} : TRUE
  ELSE CHOOSE r \in {Crc16Loop(left, data, ((lo + hi) \div 2) + 1, hi)
                       : left \in {Crc16Loop(crc, data, lo, (lo + hi) \div 2)}}
         : TRUE

crc16(data, len) == Crc16Loop(65535, data, 1, len)

\* one pass of the inner loop of crc32 on the register <<hi, lo>>
Crc32Step(crc) ==
  LET sh == <<crc[1] \div 2, (crc[2] \div 2) + 32768 * (crc[1] % 2)>>
  IN IF crc[2] % 2 = 1
     THEN <<BitXor(sh[1], 60856), BitXor(sh[2], 33568)>>
     ELSE sh

RECURSIVE Crc32Bits(_, _)
Crc32Bits(crc, j) ==
  IF j = 0 THEN crc
  ELSE CHOOSE r \in {Crc32Bits(n, j - 1) : n \in {Crc32Step(crc)}} : TRUE

RECURSIVE Crc32Loop(_, _, _, _)
Crc32Loop(crc, data, lo, hi) ==
  IF lo > hi THEN crc
  ELSE IF lo = hi
       THEN CHOOSE r \in {Crc32Bits(c, 8)
                             : c \in {<<crc[1], BitXor(crc[2], data[lo])>>}}
              : TRUE
  ELSE CHOOSE r \in {Crc32Loop(left, data, ((lo + hi) \div 2) + 1, hi)
                       : left \in {Crc32Loop(crc, data, lo, (lo + hi) \div 2)}}
         : TRUE

\* fault: the loop stops one byte early
crc32_OneShort(data, len) ==
  LET crc == Crc32Loop(<<65535, 65535>>, data, 1, len - 1)
  IN <<65535 - crc[1], 65535 - crc[2]>>

\* fault: the register is returned as it is, without the final complement
crc32_NoComplement(data, len) == Crc32Loop(<<65535, 65535>>, data, 1, len)

\* crc32: the register starts at 0xFFFFFFFF and is complemented at the end
crc32(data, len) ==
  LET crc == Crc32Loop(<<65535, 65535>>, data, 1, len)
  IN <<65535 - crc[1], 65535 - crc[2]>>

----------------------------------------------------------------------------
(* loraProtocol.cpp: serialization (memcpy of the packed structs) *)

serializeHeader(hdr) ==
  <<hdr.ver_type, hdr.src_id, hdr.dst_id, hdr.exp_id>>
  \o U16LE(hdr.session_id) \o U16LE(hdr.seq_num)
  \o <<hdr.tx_pow, hdr.sf_cr>>

deserializeHeader(buf) ==
  [ver_type   |-> buf[1],
   src_id     |-> buf[2],
   dst_id     |-> buf[3],
   exp_id     |-> buf[4],
   session_id |-> RdU16(buf, 4),
   seq_num    |-> RdU16(buf, 6),
   tx_pow     |-> buf[9],
   sf_cr      |-> buf[10]]

\* fault: the layout of AudioStartPayload without #pragma pack(push, 1)
serializeAudioStart_Unpacked(sp) ==
  U16LE(sp.total_frags) \o <<sp.codec_id, 0>> \o U16LE(sp.sample_hz)
  \o U16LE(sp.duration_ms) \o U32LE(sp.total_size) \o U16LE(sp.crc16)
  \o <<0, 0>>

serializeAudioStart(sp) ==
  U16LE(sp.total_frags) \o <<sp.codec_id>> \o U16LE(sp.sample_hz)
  \o U16LE(sp.duration_ms) \o U32LE(sp.total_size) \o U16LE(sp.crc16)

deserializeAudioStart(buf) ==
  [total_frags |-> RdU16(buf, 0),
   codec_id    |-> buf[3],
   sample_hz   |-> RdU16(buf, 3),
   duration_ms |-> RdU16(buf, 5),
   total_size  |-> RdU32(buf, 7),
   crc16       |-> RdU16(buf, 11)]

serializeAudioEnd(ep) ==
  U16LE(ep.frag_count) \o U32LE(ep.crc32) \o <<ep.reserved>>

deserializeAudioEnd(buf) ==
  [frag_count |-> RdU16(buf, 0),
   crc32      |-> RdU32(buf, 2),
   reserved   |-> buf[7]]

\* memcpy(buf + LORA_HEADER_SIZE, &ack, sizeof(AckPayload)) and its inverse
serializeAck(ack) == U16LE(ack.ack_seq) \o <<ack.status>>
deserializeAck(buf) == [ack_seq |-> RdU16(buf, 0), status |-> buf[3]]

----------------------------------------------------------------------------
(* LoRa-32-V2.ino: the receiver node *)

RX_MY_NODE_ID == 2
RX_PEER_NODE_ID == 1
RX_EXPERIMENT_ID == 1
RX_SF == 7
RX_CR == 5
RX_TX_POWER_DBM == 14

MAX_FRAGS == 22
MAX_AUDIO_BYTES == MAX_FRAGS * LORA_MAX_DATA_PAYLOAD

STATE_IDLE == "IDLE"
STATE_RECEIVING == "RECEIVING"

VARIABLES
  g_audio_buf,      \* uint8_t[MAX_AUDIO_BYTES], a sequence indexed from 1
  g_frag_received,  \* bool[MAX_FRAGS], indexed from 0
  g_audio_len,      \* bytes written so far
  g_session_id,
  g_state,
  g_total_frags,
  g_frags_rx,
  g_codec_id,
  g_sample_hz,
  g_duration_ms,
  g_total_size,
  rx_pc,            \* receivePacket: "receive" (in radio.receive), "dispatch"
                    \* (radio.receive has returned) or "returned"
  rx_status,        \* what radio.receive returned
  rx_buf,           \* the received frame: buf[0 .. getPacketLength()-1]
  rx_tx,            \* the frames the last receivePacket call transmitted
  rx_sink,          \* the onAudioReceived calls of the last receivePacket call
  rx_from,          \* g_state and g_frags_rx when radio.receive returned
  rx_ret            \* the return path the last receivePacket call took

\* the receiver's session record
session ==
  <<g_audio_buf, g_frag_received, g_audio_len, g_session_id, g_state,
    g_total_frags, g_frags_rx, g_codec_id, g_sample_hz, g_duration_ms,
    g_total_size>>

rxio == <<rx_pc, rx_status, rx_buf, rx_tx, rx_sink, rx_from, rx_ret>>

\* the sender node, the channel between the two nodes, and the peer
VARIABLES
  _session_id,      \* LoRaManager::_session_id
  _seq_num,         \* LoRaManager::_seq_num
  s_session_id,     \* the sender sketch's global g_session_id
  s_seq_num,        \* the sender sketch's global g_seq_num
  tx_pc,            \* where loop() of the sender sketch stands
  demo,             \* which DEMO_AUDIO the sketch was built with
  l_total_frags,      \* loop(): uint16_t total_frags
  l_audio_crc,        \* loop(): uint32_t audio_crc
  l_frag,             \* loop(): uint16_t frag
  l_offset,           \* loop(): size_t offset
  l_startAckOk,       \* loop(): bool startAckOk, FALSE once logAck has read it
  l_endAckOk,         \* loop(): bool endAckOk, FALSE when loop() is called again
  loops,            \* calls of loop() begun so far
  air,              \* the frame radio.transmit put on the channel, or <<>>
  ch_lost,          \* DATA frames of this transfer the channel has lost
  ch_flipped,       \* DATA frames of this transfer it delivered with a byte changed
  tx_failed,        \* DATA frames of this transfer radio.transmit failed to send
  peer_credit       \* DATA frames the peer of Spec may still send

sender ==
  <<_session_id, _seq_num, s_session_id, s_seq_num, tx_pc, demo, l_total_frags,
    l_audio_crc, l_frag, l_offset, l_startAckOk, l_endAckOk, loops>>

channel == <<air, ch_lost, ch_flipped, tx_failed>>

\* the calls made on the LoRaManager, as its caller and its radio see them
VARIABLES
  e_op,             \* the method called last
  e_in,             \* its arguments, and what the radio returned to it
  e_ret,            \* what it returned
  e_sent,           \* the buffers it handed to _radio.transmit, in order
  e_calls,          \* calls made in this behaviour
  e_built,          \* frames constructed since init()
  e_first,          \* session_id and seq_num of the first of them, if any
  caller_len        \* the len a caller of fixed chunk size passes

engine ==
  <<e_op, e_in, e_ret, e_sent, e_calls, e_built, e_first, caller_len>>

\* the calls made on the functions of packet.h and loraProtocol.cpp
VARIABLES
  c_arg,            \* what the functions are applied to, and which of them
  c_res             \* what the calls made so far returned, in order

protocol == <<c_arg, c_res>>

\* time on the air, in milliseconds
VARIABLES
  since_ms,         \* since the last frame of the sender ended
  ack_at_ms         \* from the end of that frame to the start of the
                    \* receiver's radio.transmit in sendAck

clock == <<since_ms, ack_at_ms>>

vars == <<session, rxio, sender, channel, peer_credit, engine, protocol, clock>>

RADIOLIB_ERR_NONE == "ERR_NONE"
RADIOLIB_ERR_RX_TIMEOUT == "ERR_RX_TIMEOUT"
RADIOLIB_ERR_CRC_MISMATCH == "ERR_CRC_MISMATCH"

\* memset(g_frag_received, 0, ...) and memset(g_audio_buf, 0, ...)
ClearedMarkers == [i \in 0..(MAX_FRAGS - 1) |-> FALSE]
ClearedBuffer == [i \in 1..MAX_AUDIO_BYTES |-> 0]

\* what a call leaves in e_in where it has no such argument
NoArgs ==
  [len |-> 0, data |-> <<>>, tx_state |-> RADIOLIB_ERR_NONE,
   expected_seq |-> 0, rx_state |-> RADIOLIB_ERR_NONE, rx_frame |-> <<>>,
   rx_behind |-> <<>>, rx_taken |-> <<>>]

\* no method of the LoRaManager is followed call by call
EngineIdle ==
  /\ e_op = "none"
  /\ e_in = NoArgs
  /\ e_ret = FALSE
  /\ e_sent = <<>>
  /\ e_calls = 0
  /\ e_built = 0
  /\ e_first = <<>>
  /\ caller_len = 0

\* no function of loraProtocol.cpp is followed call by call
ProtocolIdle ==
  /\ c_arg = [kind |-> "none", v |-> <<>>]
  /\ c_res = <<>>

\* no call of receivePacket has got past radio.receive
NoCall == [state |-> STATE_IDLE, frags_rx |-> 0]

RxInit ==
  /\ g_audio_buf = ClearedBuffer
  /\ g_frag_received = ClearedMarkers
  /\ g_audio_len = 0
  /\ g_session_id = 0
  /\ g_state = STATE_IDLE
  /\ g_total_frags = 0
  /\ g_frags_rx = 0
  /\ g_codec_id = 0
  /\ g_sample_hz = 0
  /\ g_duration_ms = 0
  /\ g_total_size = <<0, 0>>
  /\ rx_pc = "receive"
  /\ rx_status = RADIOLIB_ERR_NONE
  /\ rx_buf = <<>>
  /\ rx_tx = <<>>
  /\ rx_sink = <<>>
  /\ rx_from = NoCall
  /\ rx_ret = "receiving"

\* fault: ack.status left at its zero initialiser
AckFrame_StatusNotSet(session_id, ack_seq, status) ==
  serializeHeader(buildHeader(PKT_ACK, RX_MY_NODE_ID, RX_PEER_NODE_ID,
                              RX_EXPERIMENT_ID, session_id, ack_seq,
                              RX_TX_POWER_DBM, RX_SF, RX_CR))
  \o serializeAck([ack_seq |-> ack_seq, status |-> 0])

\* fault: MY_NODE_ID and PEER_NODE_ID in each other's place
AckFrame_SwappedIds(session_id, ack_seq, status) ==
  serializeHeader(buildHeader(PKT_ACK, RX_PEER_NODE_ID, RX_MY_NODE_ID,
                              RX_EXPERIMENT_ID, session_id, ack_seq,
                              RX_TX_POWER_DBM, RX_SF, RX_CR))
  \o serializeAck([ack_seq |-> ack_seq, status |-> status])

\* the frame sendAck(ack_seq, status) hands to radio.transmit
AckFrame(session_id, ack_seq, status) ==
  serializeHeader(buildHeader(PKT_ACK, RX_MY_NODE_ID, RX_PEER_NODE_ID,
                              RX_EXPERIMENT_ID, session_id, ack_seq,
                              RX_TX_POWER_DBM, RX_SF, RX_CR))
  \o serializeAck([ack_seq |-> ack_seq, status |-> status])

\* receivePacket: pkt_len, hdr, payload_buf, payload_len of the frame in rx_buf
PktLen == Len(rx_buf)
RxHdr == deserializeHeader(rx_buf)
PayloadBuf == SubSeq(rx_buf, LORA_HEADER_SIZE + 1, Len(rx_buf))
PayloadLen == Len(rx_buf) - LORA_HEADER_SIZE

\* fault: the address filter left out
AddressedToMe_NoFilter(hdr) == TRUE

\* if (hdr.dst_id != MY_NODE_ID) return;
AddressedToMe(hdr) == hdr.dst_id = RX_MY_NODE_ID

\* the frame passed the length and address filters and has this type
Dispatched(type) ==
  /\ rx_pc = "dispatch"
  /\ rx_status = RADIOLIB_ERR_NONE
  /\ PktLen >= LORA_HEADER_SIZE
  /\ AddressedToMe(RxHdr)
  /\ getType(RxHdr.ver_type) = type

\* fault: a path that sends nothing answers with Ack(CHECKSUM_ERROR)
Return_AckOnDrop(path, sent, sunk) ==
  /\ rx_pc' = "returned"
  /\ rx_status' = RADIOLIB_ERR_NONE
  /\ rx_buf' = <<>>
  /\ rx_tx' = IF sent = <<>>
              THEN <<AckFrame(g_session_id, 0, ACK_STATUS_CRC_ERR)>>
              ELSE sent
  /\ rx_sink' = sunk
  /\ rx_ret' = path
  /\ UNCHANGED <<rx_from, sender, channel, peer_credit, engine, protocol, clock>>

\* how every path of receivePacket ends: the call returns, buf is gone
Return(path, sent, sunk) ==
  /\ rx_pc' = "returned"
  /\ rx_status' = RADIOLIB_ERR_NONE
  /\ rx_buf' = <<>>
  /\ rx_tx' = sent
  /\ rx_sink' = sunk
  /\ rx_ret' = path
  /\ UNCHANGED <<rx_from, sender, channel, peer_credit, engine, protocol, clock>>

\* loop(): receivePacket is called again and waits in radio.receive
RxLoop ==
  /\ rx_pc = "returned"
  /\ rx_pc' = "receive"
  /\ rx_tx' = <<>>
  /\ rx_sink' = <<>>
  /\ rx_from' = NoCall
  /\ rx_ret' = "receiving"
  /\ UNCHANGED <<rx_status, rx_buf, session, sender, channel, peer_credit, engine, protocol, clock>>

\* radio.receive returns: a frame, a timeout or a radio error
RadioReceive(status, frame) ==
  /\ rx_pc = "receive"
  /\ rx_pc' = "dispatch"
  /\ rx_status' = status
  /\ rx_buf' = frame
  /\ rx_from' = [state |-> g_state, frags_rx |-> g_frags_rx]
  /\ UNCHANGED <<rx_tx, rx_sink, rx_ret, session>>

\* fault: a receive timeout ends the session
RxTimeout_EndsSession ==
  /\ rx_pc = "dispatch"
  /\ rx_status = RADIOLIB_ERR_RX_TIMEOUT
  /\ Return("timeout", <<>>, <<>>)
  /\ g_state' = STATE_IDLE
  /\ UNCHANGED <<g_audio_buf, g_frag_received, g_audio_len, g_session_id,
                 g_total_frags, g_frags_rx, g_codec_id, g_sample_hz,
                 g_duration_ms, g_total_size>>

RxTimeout ==
  /\ rx_pc = "dispatch"
  /\ rx_status = RADIOLIB_ERR_RX_TIMEOUT
  /\ Return("timeout", <<>>, <<>>)
  /\ UNCHANGED session

RxError ==
  /\ rx_pc = "dispatch"
  /\ rx_status \notin {RADIOLIB_ERR_NONE, RADIOLIB_ERR_RX_TIMEOUT}
  /\ Return("error", <<>>, <<>>)
  /\ UNCHANGED session

RxTooShort ==
  /\ rx_pc = "dispatch"
  /\ rx_status = RADIOLIB_ERR_NONE
  /\ PktLen < LORA_HEADER_SIZE
  /\ Return("too_short", <<>>, <<>>)
  /\ UNCHANGED session

RxNotForMe ==
  /\ rx_pc = "dispatch"
  /\ rx_status = RADIOLIB_ERR_NONE
  /\ PktLen >= LORA_HEADER_SIZE
  /\ ~AddressedToMe(RxHdr)
  /\ Return("not_for_me", <<>>, <<>>)
  /\ UNCHANGED session

RxUnknownType ==
  /\ rx_pc = "dispatch"
  /\ rx_status = RADIOLIB_ERR_NONE
  /\ PktLen >= LORA_HEADER_SIZE
  /\ AddressedToMe(RxHdr)
  /\ getType(RxHdr.ver_type) \notin {PKT_AUDIO_START, PKT_AUDIO_DATA, PKT_AUDIO_END}
  /\ Return("unknown_type", <<>>, <<>>)
  /\ UNCHANGED session

(* handleAudioStart *)

\* fault: the crc16 field not compared
StartCrcMatches_NoCheck(sp) == TRUE

\* fault: the CRC-16 taken over the whole struct, its crc16 field included
StartCrcMatches_WholeStruct(sp) ==
  crc16(serializeAudioStart(sp), SIZEOF_AudioStartPayload) = sp.crc16

\* computed == sp.crc16, the CRC-16 taken over the struct minus its last field
StartCrcMatches(sp) ==
  crc16(serializeAudioStart(sp), SIZEOF_AudioStartPayload - 2) = sp.crc16

\* fault: no capacity test
TooManyFrags_NoLimit(sp) == FALSE

\* fault: the capacity test off by one
TooManyFrags_OffByOne(sp) == sp.total_frags > MAX_FRAGS + 1

\* if (sp.total_frags > MAX_FRAGS)
TooManyFrags(sp) == sp.total_frags > MAX_FRAGS

HandleAudioStart ==
  /\ Dispatched(PKT_AUDIO_START)
  /\ LET hdr == RxHdr
         sp == deserializeAudioStart(PayloadBuf)
     IN \/ /\ PayloadLen < SIZEOF_AudioStartPayload
           /\ Return("start_short", <<>>, <<>>)
           /\ UNCHANGED session
        \/ /\ PayloadLen >= SIZEOF_AudioStartPayload
           /\ ~StartCrcMatches(sp)
           /\ Return("start_crc",
                     <<AckFrame(g_session_id, hdr.seq_num, ACK_STATUS_CRC_ERR)>>,
                     <<>>)
           /\ UNCHANGED session
        \/ /\ PayloadLen >= SIZEOF_AudioStartPayload
           /\ StartCrcMatches(sp)
           /\ TooManyFrags(sp)
           /\ Return("start_too_many",
                     <<AckFrame(g_session_id, hdr.seq_num, ACK_STATUS_MISSING)>>,
                     <<>>)
           /\ UNCHANGED session
        \/ /\ PayloadLen >= SIZEOF_AudioStartPayload
           /\ StartCrcMatches(sp)
           /\ ~TooManyFrags(sp)
           /\ g_state' = STATE_RECEIVING
           /\ g_session_id' = hdr.session_id
           /\ g_total_frags' = sp.total_frags
           /\ g_frags_rx' = 0
           /\ g_audio_len' = 0
           /\ g_codec_id' = sp.codec_id
           /\ g_sample_hz' = sp.sample_hz
           /\ g_duration_ms' = sp.duration_ms
           /\ g_total_size' = sp.total_size
           /\ g_frag_received' = ClearedMarkers
           /\ g_audio_buf' = ClearedBuffer
           /\ Return("start_ok",
                     <<AckFrame(hdr.session_id, hdr.seq_num, ACK_STATUS_OK)>>,
                     <<>>)

(* handleAudioData *)

\* fault: the session test left out
SessionActive_NoTest == TRUE

\* if (g_state != STATE_RECEIVING) return;
SessionActive == g_state = STATE_RECEIVING

\* fault: fragments beyond the announced count refused
FragIndexOutOfRange_AtTotal(frag_index) == frag_index >= g_total_frags

\* fault: > written for >=
FragIndexOutOfRange_OffByOne(frag_index) == frag_index > MAX_FRAGS

\* if (frag_index >= MAX_FRAGS) return;
FragIndexOutOfRange(frag_index) == frag_index >= MAX_FRAGS

\* fault: the frame size taken for the fragment size
FragOffset_FrameSize(frag_index) == frag_index * LORA_MAX_PAYLOAD

\* size_t offset = (size_t)frag_index * LORA_MAX_DATA_PAYLOAD;
FragOffset(frag_index) == frag_index * LORA_MAX_DATA_PAYLOAD

\* fault: every fragment copied to the start of the buffer
Memcpy_AtStart(dst, offset, src, len) ==
  [i \in 1..Len(dst) |-> IF i <= len THEN src[i] ELSE dst[i]]

\* memcpy(dst + offset, src, len) on a buffer indexed from 1
Memcpy(dst, offset, src, len) ==
  [i \in 1..Len(dst) |->
     IF offset < i /\ i <= offset + len THEN src[i - offset] ELSE dst[i]]

\* fault: the marker not set
MarkReceived_NotSet(markers, frag_index) == markers

\* g_frag_received[frag_index] = true;
MarkReceived(markers, frag_index) == [markers EXCEPT ![frag_index] = TRUE]

HandleAudioData ==
  /\ Dispatched(PKT_AUDIO_DATA)
  /\ LET seq == RxHdr.seq_num
         frag_index == g_frags_rx
         offset == FragOffset(frag_index)
     IN \/ /\ ~SessionActive
           /\ Return("data_no_session", <<>>, <<>>)
           /\ UNCHANGED session
        \/ /\ SessionActive
           /\ FragIndexOutOfRange(frag_index)
           /\ Return("data_out_of_range", <<>>, <<>>)
           /\ UNCHANGED session
        \/ /\ SessionActive
           /\ ~FragIndexOutOfRange(frag_index)
           /\ offset + PayloadLen > MAX_AUDIO_BYTES
           /\ Return("data_overflow", <<>>, <<>>)
           /\ UNCHANGED session
        \/ /\ SessionActive
           /\ ~FragIndexOutOfRange(frag_index)
           /\ offset + PayloadLen <= MAX_AUDIO_BYTES
           /\ g_audio_buf' = Memcpy(g_audio_buf, offset, PayloadBuf, PayloadLen)
           /\ g_frag_received' = MarkReceived(g_frag_received, frag_index)
           /\ g_audio_len' = g_audio_len + PayloadLen
           /\ g_frags_rx' = (g_frags_rx + 1) % 65536
           /\ Return("data_ok",
                     <<AckFrame(g_session_id, seq, ACK_STATUS_OK)>>, <<>>)
           /\ UNCHANGED <<g_session_id, g_state, g_total_frags, g_codec_id,
                          g_sample_hz, g_duration_ms, g_total_size>>

(* handleAudioEnd *)

\* fault: the loop stops one slot early
MissingFrags_OneShort(markers, total_frags) ==
  Cardinality({i \in 0..(total_frags - 2) : ~markers[i]})

\* for (i = 0; i < g_total_frags; i++) if (!g_frag_received[i]) missing++;
MissingFrags(markers, total_frags) ==
  Cardinality({i \in 0..(total_frags - 1) : ~markers[i]})

\* fault: the fragments counted up to the number the AUDIO_END frame claims
ExpectedFrags_Claimed(ep) == ep.frag_count

\* for (uint16_t i = 0; i < g_total_frags; i++): the slots handleAudioEnd
\* looks at; ep.frag_count is printed only
ExpectedFrags(ep) == g_total_frags

\* fault: the checksum of the audio not compared
EndCrcMatches_NotCompared(ep) == TRUE

\* computed != ep.crc32, the CRC-32 taken over g_audio_len bytes of the buffer
EndCrcMatches(ep) == crc32(g_audio_buf, g_audio_len) = ep.crc32

\* onAudioReceived(g_audio_buf, g_audio_len): the sink is handed the first
\* g_audio_len bytes of the buffer and reads g_codec_id, g_sample_hz and
\* g_duration_ms
SinkCall ==
  [buf |-> SubSeq(g_audio_buf, 1, g_audio_len), len |-> g_audio_len,
   codec_id |-> g_codec_id, sample_hz |-> g_sample_hz,
   duration_ms |-> g_duration_ms]

HandleAudioEnd ==
  /\ Dispatched(PKT_AUDIO_END)
  /\ LET hdr == RxHdr
         ep == deserializeAudioEnd(PayloadBuf)
         missing == MissingFrags(g_frag_received, ExpectedFrags(ep))
     IN \/ /\ PayloadLen < SIZEOF_AudioEndPayload
           /\ Return("end_short", <<>>, <<>>)
           /\ UNCHANGED session
        \/ /\ PayloadLen >= SIZEOF_AudioEndPayload
           /\ missing > 0
           /\ g_state' = STATE_IDLE
           /\ Return("end_missing",
                     <<AckFrame(g_session_id, hdr.seq_num, ACK_STATUS_MISSING)>>,
                     <<>>)
           /\ UNCHANGED <<g_audio_buf, g_frag_received, g_audio_len,
                          g_session_id, g_total_frags, g_frags_rx, g_codec_id,
                          g_sample_hz, g_duration_ms, g_total_size>>
        \/ /\ PayloadLen >= SIZEOF_AudioEndPayload
           /\ missing = 0
           /\ \E crc_ok \in {EndCrcMatches(ep)} :
                \/ /\ ~crc_ok
                   /\ Return("end_crc",
                             <<AckFrame(g_session_id, hdr.seq_num,
                                        ACK_STATUS_CRC_ERR)>>,
                             <<>>)
                \/ /\ crc_ok
                   /\ Return("end_ok",
                             <<AckFrame(g_session_id, hdr.seq_num,
                                        ACK_STATUS_OK)>>,
                             <<SinkCall>>)
           /\ g_state' = STATE_IDLE
           /\ UNCHANGED <<g_audio_buf, g_frag_received, g_audio_len,
                          g_session_id, g_total_frags, g_frags_rx, g_codec_id,
                          g_sample_hz, g_duration_ms, g_total_size>>

ReceivePacket ==
  \/ RxTimeout
  \/ RxError
  \/ RxTooShort
  \/ RxNotForMe
  \/ HandleAudioStart
  \/ HandleAudioData
  \/ HandleAudioEnd
  \/ RxUnknownType

----------------------------------------------------------------------------
(* LoraManager.h, LoraManager.cpp: the sender's LoRaManager *)

TX_MY_NODE_ID == 1
TX_PEER_NODE_ID == 2
TX_EXPERIMENT_ID == 1
TX_SF == 7
TX_CR == 5
TX_POWER_DBM == 14

\* sizeof(AudioDataPayload): data[LORA_MAX_DATA_PAYLOAD] and the len byte
SIZEOF_AudioDataPayload == LORA_MAX_DATA_PAYLOAD + 1

\* fault: ++_seq_num, the header carrying the incremented value
FillHeader_PreIncrement(type, session_id, seq_num) ==
  buildHeader(type, TX_MY_NODE_ID, TX_PEER_NODE_ID, TX_EXPERIMENT_ID,
              session_id, (seq_num + 1) % 65536, TX_POWER_DBM, TX_SF, TX_CR)

\* fault: the header carries the sketch's g_seq_num, which no send advances
FillHeader_SketchCounter(type, session_id, seq_num) ==
  buildHeader(type, TX_MY_NODE_ID, TX_PEER_NODE_ID, TX_EXPERIMENT_ID,
              session_id, s_seq_num, TX_POWER_DBM, TX_SF, TX_CR)

\* _fillHeader: the header carries _seq_num (which the call then increments)
FillHeader(type, session_id, seq_num) ==
  buildHeader(type, TX_MY_NODE_ID, TX_PEER_NODE_ID, TX_EXPERIMENT_ID,
              session_id, seq_num, TX_POWER_DBM, TX_SF, TX_CR)

\* fault: the counter left where it is
NextSeq_NoAdvance(seq_num) == seq_num

\* _seq_num++ on a uint16_t
NextSeq(seq_num) == (seq_num + 1) % 65536

\* fault: the crc16 taken over sizeof(AudioStartPayload) bytes, the zeroed
\* crc16 field included
StartPayload_WholeStruct(tf, codec, sample_hz, duration_ms, total_size) ==
  LET sp == [total_frags |-> tf, codec_id |-> codec, sample_hz |-> sample_hz,
             duration_ms |-> duration_ms, total_size |-> total_size,
             crc16 |-> 0]
  IN [sp EXCEPT !.crc16 =
        crc16(serializeAudioStart(sp), SIZEOF_AudioStartPayload)]

\* sendAudioStart: the payload struct, zeroed by memset, filled, then its
\* crc16 taken over everything except the crc16 field itself
StartPayload(tf, codec, sample_hz, duration_ms, total_size) ==
  LET sp == [total_frags |-> tf, codec_id |-> codec, sample_hz |-> sample_hz,
             duration_ms |-> duration_ms, total_size |-> total_size,
             crc16 |-> 0]
  IN [sp EXCEPT !.crc16 =
        crc16(serializeAudioStart(sp), SIZEOF_AudioStartPayload - 2)]

\* _sendPacket: the first LORA_HEADER_SIZE + payload_len bytes of the packet
\* struct, or nothing (return -1) when that exceeds LORA_MAX_PAYLOAD
SendPacket(hdr, payload_bytes, payload_len) ==
  IF LORA_HEADER_SIZE + payload_len > LORA_MAX_PAYLOAD
  THEN <<>>
  ELSE serializeHeader(hdr) \o SubSeq(payload_bytes, 1, payload_len)

\* the frame sendAudioStart hands to the radio
AudioStartFrame(session_id, seq_num, tf, codec, sample_hz, duration_ms, total_size) ==
  SendPacket(FillHeader(PKT_AUDIO_START, session_id, seq_num),
             serializeAudioStart(
               StartPayload(tf, codec, sample_hz, duration_ms, total_size)),
             SIZEOF_AudioStartPayload)

\* fault: the length test off by one
DataTooLarge_OffByOne(len) == len > LORA_MAX_DATA_PAYLOAD + 1

\* sendAudioData rejects len > LORA_MAX_DATA_PAYLOAD
DataTooLarge(len) == len > LORA_MAX_DATA_PAYLOAD

\* fault: the len field transmitted after the data bytes
AudioDataFrame_WithLenField(session_id, seq_num, data, len) ==
  serializeHeader(FillHeader(PKT_AUDIO_DATA, session_id, seq_num))
  \o SubSeq(data, 1, len) \o <<len>>

\* the frame sendAudioData hands to the radio: the header and len data bytes
AudioDataFrame(session_id, seq_num, data, len) ==
  serializeHeader(FillHeader(PKT_AUDIO_DATA, session_id, seq_num))
  \o SubSeq(data, 1, len)

\* the frame sendAudioEnd hands to the radio
AudioEndFrame(session_id, seq_num, frag_count, full_crc32) ==
  SendPacket(FillHeader(PKT_AUDIO_END, session_id, seq_num),
             serializeAudioEnd([frag_count |-> frag_count,
                                crc32 |-> full_crc32, reserved |-> 0]),
             SIZEOF_AudioEndPayload)

\* fault: ack.ack_seq not compared with expected_seq
AckAccepted_AnySeq(status, buf, expected_seq) ==
  /\ status = RADIOLIB_ERR_NONE
  /\ Len(buf) >= LORA_HEADER_SIZE + SIZEOF_AckPayload
  /\ getType(deserializeHeader(buf).ver_type) = PKT_ACK
  /\ deserializeAck(SubSeq(buf, LORA_HEADER_SIZE + 1,
                           LORA_HEADER_SIZE + SIZEOF_AckPayload)).status
       = ACK_STATUS_OK

\* waitForAck after _radio.receive returned status with frame buf
AckAccepted(status, buf, expected_seq) ==
  /\ status = RADIOLIB_ERR_NONE
  /\ Len(buf) >= LORA_HEADER_SIZE + SIZEOF_AckPayload
  /\ getType(deserializeHeader(buf).ver_type) = PKT_ACK
  /\ LET ack == deserializeAck(SubSeq(buf, LORA_HEADER_SIZE + 1,
                                      LORA_HEADER_SIZE + SIZEOF_AckPayload))
     IN /\ ack.ack_seq = expected_seq
        /\ ack.status = ACK_STATUS_OK

\* getLastSeqNum(): the sequence number of the frame sent last
getLastSeqNum == (_seq_num + 65535) % 65536

----------------------------------------------------------------------------
(* The receiver facing an arbitrary peer: every call of radio.receive may    *)
(* return any frame of PeerFrames, a timeout or a radio error.               *)

\* DATA frames beyond the announced count the peer may send
MaxExtra == 1

\* buf with the byte at 1-based position pos replaced
SetByte(buf, pos, val) == [buf EXCEPT ![pos] = val]

\* fragment contents: a full fragment, a last fragment, an empty one
PatternByte(i) == ((i * 37) + 11) % 256
FullData == [i \in 1..LORA_MAX_DATA_PAYLOAD |-> PatternByte(i)]
TailData == [i \in 1..22 |-> PatternByte(i + 100)]

RECURSIVE Repeat(_, _)
Repeat(chunk, n) == IF n = 0 THEN <<>> ELSE chunk \o Repeat(chunk, n - 1)

\* the AUDIO_START announcements the peer makes
PeerStarts ==
  { [session |-> 4660, seq |-> 0, tf |-> MAX_FRAGS, codec |-> CODEC_RAW_PCM,
     sample_hz |-> 8000, duration_ms |-> 64,
     total_size |-> ToU32(MAX_AUDIO_BYTES)],
    [session |-> 43981, seq |-> 300, tf |-> 2, codec |-> CODEC_COMPRESSED,
     sample_hz |-> 16000, duration_ms |-> 1000,
     total_size |-> ToU32(2 * LORA_MAX_DATA_PAYLOAD)],
    [session |-> 1, seq |-> 65535, tf |-> 0, codec |-> CODEC_RAW_PCM,
     sample_hz |-> 8000, duration_ms |-> 0, total_size |-> ToU32(0)] }

PeerStartFrame(p) ==
  AudioStartFrame(p.session, p.seq, p.tf, p.codec, p.sample_hz,
                  p.duration_ms, p.total_size)

\* announcements of more fragments than the receiver holds, CRC-16 correct
OversizeStartFrames ==
  { AudioStartFrame(4660, 5, tf, CODEC_RAW_PCM, 8000, 64, ToU32(70000))
      : tf \in {MAX_FRAGS + 1, 65535} }

\* an announcement whose crc16 field, or whose total_frags field, was changed
BadCrcStartFrames ==
  LET f == AudioStartFrame(4662, 9, 3, CODEC_RAW_PCM, 8000, 64, ToU32(512))
  IN { SetByte(f, LORA_HEADER_SIZE + 12, BitXor(f[LORA_HEADER_SIZE + 12], 1)),
       SetByte(f, LORA_HEADER_SIZE + 1, 30) }

AnyStartFrame ==
  AudioStartFrame(4663, 2, 1, CODEC_RAW_PCM, 8000, 64, ToU32(10))
AnyDataFrame == AudioDataFrame(4660, 4, FullData, 3)
AnyEndFrame == AudioEndFrame(4660, 6, 1, <<0, 0>>)
AnyAckFrame == AckFrame(4660, 6, ACK_STATUS_OK)

\* frames for another node, one of each packet type
MisaddressedFrames ==
  { SetByte(f, 3, 9) : f \in {AnyStartFrame, AnyDataFrame, AnyEndFrame,
                              SetByte(AnyAckFrame, 3, RX_MY_NODE_ID)} }

\* frames too short for their type, or for a header
ShortFrames ==
  { SubSeq(AnyStartFrame, 1, LORA_HEADER_SIZE + SIZEOF_AudioStartPayload - 1),
    SubSeq(AnyEndFrame, 1, LORA_HEADER_SIZE + SIZEOF_AudioEndPayload - 1),
    SubSeq(AnyEndFrame, 1, LORA_HEADER_SIZE),
    SubSeq(AnyDataFrame, 1, LORA_HEADER_SIZE - 1),
    <<>> }

\* frames for this node with the type ACK, or with no type of the protocol
OtherTypeFrames ==
  { SetByte(AnyAckFrame, 3, RX_MY_NODE_ID),
    SetByte(AnyDataFrame, 1, makeVerType(LORA_PROTOCOL_VERSION, 5)),
    SetByte(AnyDataFrame, 1, makeVerType(LORA_PROTOCOL_VERSION, 0)) }

\* the DATA frames the peer sends: full, last and empty fragments, and a full
\* fragment that names another source (7) and another protocol version (2)
PeerDataFrames ==
  { AudioDataFrame(4660, 1, FullData, LORA_MAX_DATA_PAYLOAD),
    AudioDataFrame(43981, 301, TailData, 22),
    AudioDataFrame(4660, 65535, FullData, 0),
    SetByte(SetByte(AudioDataFrame(4660, 2, FullData, LORA_MAX_DATA_PAYLOAD),
                    2, 7),
            1, makeVerType(2, PKT_AUDIO_DATA)) }

\* the AUDIO_END frames the peer sends: the checksum of 22 full fragments, of
\* two and of none (each is the wrong checksum for the other contents)
FullCrc22 == crc32(Repeat(FullData, MAX_FRAGS), MAX_AUDIO_BYTES)
FullCrc2 == crc32(Repeat(FullData, 2), 2 * LORA_MAX_DATA_PAYLOAD)
PeerEndFrames ==
  { AudioEndFrame(4660, 23, MAX_FRAGS, FullCrc22),
    AudioEndFrame(43981, 303, 2, FullCrc2),
    AudioEndFrame(1, 0, 0, crc32(<<>>, 0)) }

IsFullData(f) == Len(f) = LORA_MAX_PAYLOAD

\* the sender is not part of this specification: it stays as setup() left it
SenderOff ==
  /\ _session_id = 4660
  /\ _seq_num = 0
  /\ s_session_id = 4660
  /\ s_seq_num = 0
  /\ tx_pc = "off"
  /\ demo = 1
  /\ l_total_frags = 0
  /\ l_audio_crc = <<0, 0>>
  /\ l_frag = 0
  /\ l_offset = 0
  /\ l_startAckOk = FALSE
  /\ l_endAckOk = FALSE
  /\ loops = 0

ChannelInit ==
  /\ air = <<>>
  /\ ch_lost = 0
  /\ ch_flipped = 0
  /\ tx_failed = 0
  /\ since_ms = 0
  /\ ack_at_ms = 0

Init ==
  /\ RxInit
  /\ SenderOff
  /\ ChannelInit
  /\ peer_credit = MaxExtra
  /\ EngineIdle
  /\ ProtocolIdle

PeerSendsStart ==
  \/ \E p \in PeerStarts :
       /\ RadioReceive(RADIOLIB_ERR_NONE, PeerStartFrame(p))
       /\ peer_credit' = Min(p.tf, MAX_FRAGS) + MaxExtra
  \/ \E f \in OversizeStartFrames \cup BadCrcStartFrames :
       /\ RadioReceive(RADIOLIB_ERR_NONE, f)
       /\ UNCHANGED peer_credit

PeerSendsData ==
  \E f \in PeerDataFrames :
    /\ peer_credit > 0
    /\ RadioReceive(RADIOLIB_ERR_NONE, f)
    /\ peer_credit' = IF IsFullData(f) THEN peer_credit - 1 ELSE 0

PeerSendsEnd ==
  \E f \in PeerEndFrames :
    /\ RadioReceive(RADIOLIB_ERR_NONE, f)
    /\ UNCHANGED peer_credit

PeerSendsOther ==
  \E f \in MisaddressedFrames \cup ShortFrames \cup OtherTypeFrames :
    /\ RadioReceive(RADIOLIB_ERR_NONE, f)
    /\ UNCHANGED peer_credit

NothingReceived ==
  \E status \in {RADIOLIB_ERR_RX_TIMEOUT, RADIOLIB_ERR_CRC_MISMATCH} :
    /\ RadioReceive(status, <<>>)
    /\ UNCHANGED peer_credit

PeerSends ==
  /\ \/ PeerSendsStart
     \/ PeerSendsData
     \/ PeerSendsEnd
     \/ PeerSendsOther
     \/ NothingReceived
  /\ UNCHANGED <<sender, channel, engine, protocol, clock>>

Next ==
  \/ PeerSends
  \/ ReceivePacket
  \/ RxLoop

Spec == Init /\ [][Next]_vars

----------------------------------------------------------------------------
(* The sender sketch (LoRa-32-V3.ino) transferring DEMO_AUDIO to the         *)
(* receiver over a channel that may lose a DATA frame or change a byte of    *)
(* one. A frame is put on the air while the receiver waits in radio.receive. *)

\* calls of loop() the sender makes
MaxLoops == 1
\* DATA frames that are lost, changed, or fail to transmit in one behaviour
MaxFaults == 1
\* a fault hits one of the first MaxFaultFrag fragments or the last fragment
MaxFaultFrag == 1

\* the lengths DEMO_AUDIO is built with; the first is the sketch's own
DemoLens == <<512, 0, 1, 244, 245, 246, 512, MAX_AUDIO_BYTES>>

\* static const uint8_t DEMO_AUDIO[...]: the sketch's 512 zero bytes, or
\* "real PCM bytes"
DEMO_AUDIO ==
  [d \in 1..Len(DemoLens) |->
     [i \in 1..DemoLens[d] |-> IF d = 1 THEN 0 ELSE PatternByte(i)]]
DEMO_AUDIO_LEN == Len(DEMO_AUDIO[demo])

\* setup(): g_session_id = millis() & 0xFFFF; g_seq_num = 0; lora.init copies
\* both into the LoRaManager
SenderSetup ==
  /\ s_session_id \in {4660}
  /\ s_seq_num = 0
  /\ _session_id = s_session_id
  /\ _seq_num = s_seq_num
  /\ tx_pc = "loop"
  /\ demo \in 1..Len(DemoLens)
  /\ l_total_frags = 0
  /\ l_audio_crc = <<0, 0>>
  /\ l_frag = 0
  /\ l_offset = 0
  /\ l_startAckOk = FALSE
  /\ l_endAckOk = FALSE
  /\ loops = 0

InitTransfer ==
  /\ RxInit
  /\ SenderSetup
  /\ ChannelInit
  /\ peer_credit = 0
  /\ EngineIdle
  /\ ProtocolIdle

\* the receiver is in radio.receive and no frame is on the air
ChannelFree == air = <<>> /\ rx_pc = "receive"

Faults == ch_lost + ch_flipped + tx_failed

\* fault: the division not rounded up
TotalFrags_RoundedDown(len) == (len \div LORA_MAX_DATA_PAYLOAD) % 65536

\* uint16_t total_frags = (DEMO_AUDIO_LEN + LORA_MAX_DATA_PAYLOAD - 1)
\*                        / LORA_MAX_DATA_PAYLOAD;
TotalFrags(len) ==
  ((len + LORA_MAX_DATA_PAYLOAD - 1) \div LORA_MAX_DATA_PAYLOAD) % 65536

\* fault: the min left out
Chunk_AllThatIsLeft(len, offset) == len - offset

\* size_t chunk = min((size_t)LORA_MAX_DATA_PAYLOAD, DEMO_AUDIO_LEN - offset);
Chunk(len, offset) == Min(LORA_MAX_DATA_PAYLOAD, len - offset)

\* the index of the fragment sendAudioData was last called for
SentFrag == l_frag - 1
Faultable == SentFrag < MaxFaultFrag \/ l_frag = l_total_frags

\* loop(): fragmentation, crc32 of the audio, sendAudioStart; a failed
\* transmit ends this call of loop(). At most limit calls are followed.
SendStartWithin(limit) ==
  /\ tx_pc = "loop"
  /\ loops < limit
  /\ ChannelFree
  /\ loops' = loops + 1
  /\ l_total_frags' = TotalFrags(DEMO_AUDIO_LEN)
  /\ l_audio_crc' = crc32(DEMO_AUDIO[demo], DEMO_AUDIO_LEN)
  /\ _seq_num' = NextSeq(_seq_num)
  /\ \/ /\ air' = AudioStartFrame(_session_id, _seq_num,
                                  TotalFrags(DEMO_AUDIO_LEN), CODEC_RAW_PCM,
                                  8000, 64, ToU32(DEMO_AUDIO_LEN))
        /\ tx_pc' = "wait_start"
     \/ /\ air' = <<>>
        /\ tx_pc' = "loop"
  /\ ch_lost' = 0
  /\ ch_flipped' = 0
  /\ tx_failed' = 0
  /\ l_endAckOk' = FALSE
  /\ UNCHANGED <<_session_id, s_session_id, s_seq_num, demo, l_frag, l_offset,
                 l_startAckOk, session, rxio, peer_credit, engine, protocol, clock>>

SendStart == SendStartWithin(MaxLoops)

\* what waitForAck's _radio.receive returns: the frame the receiver sent
\* while handling the last frame, or a timeout
AckHeard == rx_pc = "returned" /\ rx_tx # <<>>
WaitForAck(expected_seq) ==
  AckAccepted(IF AckHeard THEN RADIOLIB_ERR_NONE ELSE RADIOLIB_ERR_RX_TIMEOUT,
              IF AckHeard THEN rx_tx[1] ELSE <<>>, expected_seq)

\* bool startAckOk = lora.waitForAck(lora.getLastSeqNum(), timeout_ms);
WaitStartAck ==
  /\ tx_pc = "wait_start"
  /\ air = <<>>
  /\ rx_pc \in {"receive", "returned"}
  /\ l_startAckOk' = WaitForAck(getLastSeqNum)
  /\ l_offset' = 0
  /\ l_frag' = 0
  /\ tx_pc' = "data"
  /\ UNCHANGED <<_session_id, _seq_num, s_session_id, s_seq_num, demo,
                 l_total_frags, l_audio_crc, l_endAckOk, loops, channel,
                 session, rxio, peer_credit, engine, protocol, clock>>

\* one pass of the for loop: sendAudioData(DEMO_AUDIO + offset, (uint8_t)chunk)
SendDataWhen(free) ==
  /\ tx_pc = "data"
  /\ l_frag < l_total_frags
  /\ free
  /\ LET chunk == Chunk(DEMO_AUDIO_LEN, l_offset)
         len == chunk % 256
         data == SubSeq(DEMO_AUDIO[demo], l_offset + 1, l_offset + len)
     IN /\ \/ /\ DataTooLarge(len)
              /\ UNCHANGED <<_seq_num, air, tx_failed>>
           \/ /\ ~DataTooLarge(len)
              /\ _seq_num' = NextSeq(_seq_num)
              /\ air' = AudioDataFrame(_session_id, _seq_num, data, len)
              /\ UNCHANGED tx_failed
           \/ /\ ~DataTooLarge(len)
              /\ Faults < MaxFaults
              /\ l_frag < MaxFaultFrag \/ l_frag + 1 = l_total_frags
              /\ _seq_num' = NextSeq(_seq_num)
              /\ air' = <<>>
              /\ tx_failed' = tx_failed + 1
        /\ l_offset' = l_offset + chunk
  /\ l_frag' = (l_frag + 1) % 65536
  /\ l_startAckOk' = FALSE
  /\ UNCHANGED <<_session_id, s_session_id, s_seq_num, tx_pc, demo,
                 l_total_frags, l_audio_crc, l_endAckOk, loops,
                 ch_lost, ch_flipped, session, rxio, peer_credit, engine,
                 protocol, clock>>

\* the pass made once the receiver is back in radio.receive
SendData == SendDataWhen(ChannelFree)

\* lora.sendAudioEnd(total_frags, audio_crc), its result ignored
SendEndWhen(free) ==
  /\ tx_pc = "data"
  /\ ~(l_frag < l_total_frags)
  /\ free
  /\ _seq_num' = NextSeq(_seq_num)
  /\ \/ air' = AudioEndFrame(_session_id, _seq_num, l_total_frags, l_audio_crc)
     \/ air' = <<>>
  /\ tx_pc' = "wait_end"
  /\ l_startAckOk' = FALSE
  /\ UNCHANGED <<_session_id, s_session_id, s_seq_num, demo, l_total_frags,
                 l_audio_crc, l_frag, l_offset, l_endAckOk,
                 loops, ch_lost, ch_flipped, tx_failed, session, rxio,
                 peer_credit, engine, protocol, clock>>

SendEnd == SendEndWhen(ChannelFree)

\* bool endAckOk = lora.waitForAck(...); g_session_id++; g_seq_num = 0;
WaitEndAck ==
  /\ tx_pc = "wait_end"
  /\ air = <<>>
  /\ rx_pc \in {"receive", "returned"}
  /\ l_endAckOk' = WaitForAck(getLastSeqNum)
  /\ s_session_id' = (s_session_id + 1) % 65536
  /\ s_seq_num' = 0
  /\ tx_pc' = "loop"
  /\ UNCHANGED <<_session_id, _seq_num, demo, l_total_frags, l_audio_crc,
                 l_frag, l_offset, l_startAckOk, loops, channel, session,
                 rxio, peer_credit, engine, protocol, clock>>

AirType == getType(air[1])

\* the frame on the air reaches the receiver's radio.receive
Deliver ==
  /\ air # <<>>
  /\ RadioReceive(RADIOLIB_ERR_NONE, air)
  /\ air' = <<>>
  /\ UNCHANGED <<ch_lost, ch_flipped, tx_failed, sender, peer_credit, engine, protocol, clock>>

\* a DATA frame on the air reaches nobody
Lose ==
  /\ air # <<>>
  /\ AirType = PKT_AUDIO_DATA
  /\ Faults < MaxFaults
  /\ Faultable
  /\ air' = <<>>
  /\ ch_lost' = ch_lost + 1
  /\ UNCHANGED <<ch_flipped, tx_failed, session, rxio, sender, peer_credit, engine, protocol, clock>>

\* one payload byte of a DATA frame on the air changes: the first in its top
\* bit, or the last in its bottom bit
Flip ==
  /\ air # <<>>
  /\ AirType = PKT_AUDIO_DATA
  /\ Len(air) > LORA_HEADER_SIZE
  /\ Faults < MaxFaults
  /\ Faultable
  /\ \/ air' = SetByte(air, LORA_HEADER_SIZE + 1,
                       BitXor(air[LORA_HEADER_SIZE + 1], 128))
     \/ air' = SetByte(air, Len(air), BitXor(air[Len(air)], 1))
  /\ ch_flipped' = ch_flipped + 1
  /\ UNCHANGED <<ch_lost, tx_failed, session, rxio, sender, peer_credit, engine, protocol, clock>>

\* the AUDIO_END frame the sender transmitted last
SentEndFrame ==
  AudioEndFrame(_session_id, getLastSeqNum, l_total_frags, l_audio_crc)

\* the crc32 field of the AUDIO_END frame on the air changes
CorruptEndCrc ==
  /\ air # <<>>
  /\ air = SentEndFrame
  /\ air' = SetByte(air, LORA_HEADER_SIZE + 3,
                    BitXor(air[LORA_HEADER_SIZE + 3], 1))
  /\ UNCHANGED <<ch_lost, ch_flipped, tx_failed, session, rxio, sender,
                 peer_credit, engine, protocol, clock>>

NextTransfer ==
  \/ SendStart
  \/ WaitStartAck
  \/ SendData
  \/ SendEnd
  \/ WaitEndAck
  \/ Deliver
  \/ Lose
  \/ Flip
  \/ CorruptEndCrc
  \/ HandleAudioStart
  \/ HandleAudioData
  \/ HandleAudioEnd
  \/ RxLoop

SpecTransfer == InitTransfer /\ [][NextTransfer]_vars

----------------------------------------------------------------------------
(* The sender sketch making one transfer after another over a channel that   *)
(* delivers every frame unchanged.                                           *)

\* calls of loop() followed beyond the first MaxLoops
MaxRenewals == 1

\* the sketch as it is built: 512 zero bytes of DEMO_AUDIO
InitRenewal ==
  /\ InitTransfer
  /\ demo = 1

NextRenewal ==
  \/ SendStartWithin(MaxLoops + MaxRenewals)
  \/ WaitStartAck
  \/ SendData
  \/ SendEnd
  \/ WaitEndAck
  \/ Deliver
  \/ HandleAudioStart
  \/ HandleAudioData
  \/ HandleAudioEnd
  \/ RxLoop

SpecRenewal == InitRenewal /\ [][NextRenewal]_vars

----------------------------------------------------------------------------
(* The LoRaManager called by any orchestrator: sendAudioStart,               *)
(* sendAudioData, sendAudioEnd and waitForAck in any order, on a radio whose *)
(* transmit may fail and whose receive may return anything.                  *)

\* calls of LoRaManager methods in one behaviour
MaxCalls == 2

RADIOLIB_ERR_TX_TIMEOUT == "ERR_TX_TIMEOUT"
\* what _radio.transmit returns
TxStates == {RADIOLIB_ERR_NONE, RADIOLIB_ERR_TX_TIMEOUT}

\* the sender sketch's variables, which no method of the LoRaManager reads
sketch ==
  <<s_session_id, s_seq_num, tx_pc, demo, l_total_frags, l_audio_crc, l_frag,
    l_offset, l_startAckOk, l_endAckOk, loops>>

\* the sketch after setup(), its loop() not followed
SketchIdle ==
  /\ s_session_id = 4660
  /\ s_seq_num = 0
  /\ tx_pc = "off"
  /\ demo = 1
  /\ l_total_frags = 0
  /\ l_audio_crc = <<0, 0>>
  /\ l_frag = 0
  /\ l_offset = 0
  /\ l_startAckOk = FALSE
  /\ l_endAckOk = FALSE
  /\ loops = 0

\* frames constructed before the behaviour begins: none (init() has just
\* returned) or 65535 (every seq_num from 0 to 65534 has been used once)
BuiltBefore == {0, 65535}

\* init() copied session id and sequence number 0 from the sketch; each of
\* the e_built frames constructed since then advanced _seq_num
EngineSetup ==
  /\ _session_id = s_session_id
  /\ _seq_num = (s_seq_num + e_built) % 65536
  /\ e_first = IF e_built = 0
               THEN <<>>
               ELSE <<[session_id |-> _session_id, seq_num |-> s_seq_num]>>
  /\ e_op = "none"
  /\ e_in = NoArgs
  /\ e_ret = FALSE
  /\ e_sent = <<>>
  /\ e_calls = 0

InitEngine ==
  /\ RxInit
  /\ SketchIdle
  /\ e_built \in BuiltBefore
  /\ caller_len = 0
  /\ EngineSetup
  /\ ProtocolIdle
  /\ ChannelInit
  /\ peer_credit = 0

\* session_id and seq_num as they lie in the header of a frame
HdrIds(frame) ==
  [session_id |-> RdU16(frame, 4), seq_num |-> RdU16(frame, 6)]

\* fault: a failed transmit repeated once
TransmitCalls_Retry(frame, tx_state) ==
  IF tx_state = RADIOLIB_ERR_NONE THEN <<frame>> ELSE <<frame, frame>>

\* the calls of _radio.transmit one send makes: one, whatever it returns
TransmitCalls(frame, tx_state) == <<frame>>

\* _sendPacket: -1 and no call of _radio.transmit when SendPacket built
\* nothing, else the one call and what it returned
SendPacketCalls(frame, tx_state) ==
  IF frame = <<>> THEN <<>> ELSE TransmitCalls(frame, tx_state)
SendPacketState(frame, tx_state) ==
  IF frame = <<>> THEN "-1" ELSE tx_state

\* what a call of a LoRaManager method leaves behind: its return value, the
\* buffers handed to _radio.transmit, the frame on the air if the last
\* transmit succeeded, and whether _fillHeader ran
MethodCall(op, args, ret, sent, filled) ==
  /\ e_calls < MaxCalls
  /\ e_op' = op
  /\ e_in' = args
  /\ e_ret' = ret
  /\ e_sent' = sent
  /\ e_calls' = e_calls + 1
  /\ e_built' = IF filled THEN e_built + 1 ELSE e_built
  /\ e_first' = IF filled /\ e_first = <<>>
                THEN <<[session_id |-> _session_id, seq_num |-> _seq_num]>>
                ELSE e_first
  /\ _seq_num' = IF filled THEN NextSeq(_seq_num) ELSE _seq_num
  /\ air' = IF ret /\ sent # <<>> THEN sent[Len(sent)] ELSE <<>>
  /\ UNCHANGED <<_session_id, sketch, caller_len, ch_lost, ch_flipped,
                 tx_failed, session, rxio, peer_credit, protocol, clock>>

\* the arguments sendAudioStart and sendAudioEnd are called with
StartArgs ==
  { [tf |-> 3, codec |-> CODEC_RAW_PCM, sample_hz |-> 8000,
     duration_ms |-> 64, total_size |-> ToU32(512)],
    [tf |-> 0, codec |-> CODEC_COMPRESSED, sample_hz |-> 16000,
     duration_ms |-> 0, total_size |-> ToU32(0)] }
EndArgs ==
  { [frag_count |-> 3, full_crc32 |-> <<4660, 22136>>],
    [frag_count |-> 0, full_crc32 |-> <<0, 0>>] }

\* sendAudioStart called with one of args
sendAudioStartWith(args) ==
  \E a \in args, tx_state \in TxStates :
    LET frame == AudioStartFrame(_session_id, _seq_num, a.tf, a.codec,
                                 a.sample_hz, a.duration_ms, a.total_size)
    IN MethodCall("sendAudioStart", [NoArgs EXCEPT !.tx_state = tx_state],
                  SendPacketState(frame, tx_state) = RADIOLIB_ERR_NONE,
                  SendPacketCalls(frame, tx_state), TRUE)

sendAudioStart == sendAudioStartWith(StartArgs)

\* the bytes the caller's data pointer points at
CallerData == [i \in 1..255 |-> PatternByte(i)]

\* sendAudioData(data, len) with len one of lens
sendAudioData(lens) ==
  \E len \in lens, tx_state \in TxStates :
    LET args == [NoArgs EXCEPT !.len = len, !.data = CallerData,
                               !.tx_state = tx_state]
        frame == AudioDataFrame(_session_id, _seq_num, CallerData, len)
    IN IF DataTooLarge(len)
       THEN /\ tx_state = RADIOLIB_ERR_NONE
            /\ MethodCall("sendAudioData", args, FALSE, <<>>, FALSE)
       ELSE MethodCall("sendAudioData", args, tx_state = RADIOLIB_ERR_NONE,
                       TransmitCalls(frame, tx_state), TRUE)

sendAudioEnd ==
  \E a \in EndArgs, tx_state \in TxStates :
    LET frame == AudioEndFrame(_session_id, _seq_num, a.frag_count,
                               a.full_crc32)
    IN MethodCall("sendAudioEnd", [NoArgs EXCEPT !.tx_state = tx_state],
                  SendPacketState(frame, tx_state) = RADIOLIB_ERR_NONE,
                  SendPacketCalls(frame, tx_state), TRUE)

\* what _radio.receive may hand waitForAck(expected_seq): acknowledgments of
\* expected_seq and of other sequence numbers, with each status, for this
\* node and for another, too short, longer, and frames of another type
HeardFrames(expected_seq) ==
  LET ok == AckFrame(_session_id, expected_seq, ACK_STATUS_OK)
  IN { ok,
       AckFrame(_session_id, expected_seq, ACK_STATUS_CRC_ERR),
       AckFrame(_session_id, expected_seq, ACK_STATUS_MISSING),
       AckFrame(_session_id, NextSeq(expected_seq), ACK_STATUS_OK),
       AckFrame(_session_id, (expected_seq + 256) % 65536, ACK_STATUS_OK),
       AckFrame((_session_id + 1) % 65536, expected_seq, ACK_STATUS_OK),
       SetByte(ok, 3, 9),
       SubSeq(ok, 1, LORA_HEADER_SIZE + SIZEOF_AckPayload - 1),
       ok \o <<0>>,
       SetByte(ok, 1, makeVerType(LORA_PROTOCOL_VERSION, PKT_AUDIO_END)),
       AudioEndFrame(_session_id, expected_seq, 0, <<0, 0>>),
       <<>> }

\* what _radio.receive returns
RxStates ==
  {RADIOLIB_ERR_NONE, RADIOLIB_ERR_RX_TIMEOUT, RADIOLIB_ERR_CRC_MISMATCH}

\* the sequence numbers a caller waits for: the last one used, and another
ExpectedSeqs == {getLastSeqNum, 7}

\* the frame that reaches the radio after the one _radio.receive returns:
\* none, or the acknowledgment waited for
BehindFrames(expected_seq) ==
  {<<>>, AckFrame(_session_id, expected_seq, ACK_STATUS_OK)}

\* fault: a frame that does not match skipped and the next one taken
Received_UntilMatch(rx_state, rx_frame, rx_behind, expected_seq) ==
  IF AckAccepted(rx_state, rx_frame, expected_seq) \/ rx_behind = <<>>
  THEN <<rx_frame>>
  ELSE <<rx_frame, rx_behind>>

\* the frames waitForAck takes from the radio: int state =
\* _radio.receive(buf, sizeof(buf)), called once, with no loop around it
Received(rx_state, rx_frame, rx_behind, expected_seq) == <<rx_frame>>

waitForAck ==
  \E expected_seq \in ExpectedSeqs, rx_state \in RxStates :
    \E rx_frame \in HeardFrames(expected_seq),
       rx_behind \in BehindFrames(expected_seq) :
      LET taken == Received(rx_state, rx_frame, rx_behind, expected_seq)
      IN MethodCall("waitForAck",
                    [NoArgs EXCEPT !.expected_seq = expected_seq,
                                   !.rx_state = rx_state,
                                   !.rx_frame = rx_frame,
                                   !.rx_behind = rx_behind,
                                   !.rx_taken = taken],
                    AckAccepted(rx_state, taken[Len(taken)], expected_seq),
                    <<>>, FALSE)

\* the chunk lengths a caller passes: none, one byte, the most allowed, and
\* more
EngineLens == {0, 1, LORA_MAX_DATA_PAYLOAD, LORA_MAX_DATA_PAYLOAD + 1, 255}

NextEngine ==
  \/ sendAudioStart
  \/ sendAudioData(EngineLens)
  \/ sendAudioEnd
  \/ waitForAck

SpecEngine == InitEngine /\ [][NextEngine]_vars

----------------------------------------------------------------------------
(* A caller that passes sendAudioData the same len in every call, for every  *)
(* len a uint8_t holds, facing the receiver: each frame transmitted reaches   *)
(* the receiver's radio.receive unchanged.                                   *)

\* uint8_t len
CallerLens == 0..255

InitData ==
  /\ RxInit
  /\ SketchIdle
  /\ e_built = 0
  /\ caller_len \in CallerLens
  /\ EngineSetup
  /\ ProtocolIdle
  /\ ChannelInit
  /\ peer_credit = 0

NextData ==
  \/ ChannelFree /\ sendAudioStart
  \/ ChannelFree /\ sendAudioData({caller_len})
  \/ Deliver
  \/ HandleAudioStart
  \/ HandleAudioData
  \/ RxLoop

SpecData == InitData /\ [][NextData]_vars

----------------------------------------------------------------------------
(* One call of sendAudioStart for each combination of parameter values, the  *)
(* frame it transmits reaching the receiver's radio.receive unchanged.       *)

\* uint16_t total_frags, uint8_t codec, uint16_t sample_hz,
\* uint16_t duration_ms, uint32_t total_size
StartParams ==
  [tf : {0, 3, MAX_FRAGS, MAX_FRAGS + 1, 65535},
   codec : {CODEC_RAW_PCM, CODEC_COMPRESSED},
   sample_hz : {8000, 65535},
   duration_ms : {0, 64},
   total_size : {ToU32(0), ToU32(512), <<65535, 65535>>}]

NextStart ==
  \/ ChannelFree /\ e_calls = 0 /\ sendAudioStartWith(StartParams)
  \/ Deliver
  \/ HandleAudioStart
  \/ RxLoop

SpecStart == InitEngine /\ [][NextStart]_vars

----------------------------------------------------------------------------
(* Properties of the receiver, stated on the step in which receivePacket     *)
(* handles the frame radio.receive returned (rx_pc = "dispatch").            *)

\* frame is an ACK frame acknowledging seq with this status
IsAck(frame, seq, status) ==
  /\ Len(frame) = LORA_HEADER_SIZE + SIZEOF_AckPayload
  /\ getType(frame[1]) = PKT_ACK
  /\ frame[LORA_HEADER_SIZE + 1] + 256 * frame[LORA_HEADER_SIZE + 2] = seq
  /\ frame[LORA_HEADER_SIZE + 3] = status

\* the handled frame is an AUDIO_START long enough to hold its payload
StartProcessed ==
  /\ Dispatched(PKT_AUDIO_START)
  /\ PayloadLen >= SIZEOF_AudioStartPayload

\* the fields of the AUDIO_START payload as they lie in the frame
RxTotalFrags == RdU16(PayloadBuf, 0)
RxCrc16 == RdU16(PayloadBuf, 11)
Crc16Correct == crc16(SubSeq(PayloadBuf, 1, 11), 11) = RxCrc16

\* the handled frame is an AUDIO_DATA frame
DataProcessed == Dispatched(PKT_AUDIO_DATA)

\* the handled frame is an AUDIO_END long enough to hold its payload
EndProcessed ==
  /\ Dispatched(PKT_AUDIO_END)
  /\ PayloadLen >= SIZEOF_AudioEndPayload

\* the bytes of the reassembly buffer that differ from the sender's audio
DifferingBytes ==
  {i \in 1..DEMO_AUDIO_LEN : g_audio_buf[i] # DEMO_AUDIO[demo][i]}

\* C1: when the sender's AUDIO_START, its DATA fragments in order and its
\* AUDIO_END have each been delivered once and unchanged, for every audio
\* length L in {0, 1, 244, 245, 246, 512, 5390}, the receiver answers the
\* AUDIO_END with Ack(OK), hands the sink exactly the L original bytes and
\* ends in IDLE.
C1_RoundTrip ==
  [][(EndProcessed /\ rx_buf = SentEndFrame /\ Faults = 0)
       => /\ Len(rx_tx') = 1
          /\ IsAck(rx_tx'[1], RxHdr.seq_num, ACK_STATUS_OK)
          /\ Len(rx_sink') = 1
          /\ rx_sink'[1].len = DEMO_AUDIO_LEN
          /\ rx_sink'[1].buf = DEMO_AUDIO[demo]
          /\ g_state' = STATE_IDLE]_vars

\* the 5390 patterned bytes went through 22 fragments and reached the sink
C1_Witness ==
  /\ rx_ret = "end_ok"
  /\ Faults = 0
  /\ DEMO_AUDIO_LEN = MAX_AUDIO_BYTES
  /\ g_frags_rx = MAX_FRAGS
  /\ Len(rx_sink) = 1
  /\ rx_sink[1].buf = DEMO_AUDIO[demo]
  /\ g_state = STATE_IDLE

\* C2: in a transfer of at least one fragment that the receiver accepted, when
\* exactly one DATA frame was never delivered and the others arrived once and
\* in order, the AUDIO_END is answered with Ack(seq, FRAGMENTS_MISSING), the
\* receiver goes to IDLE and the sink is not invoked, whatever crc32 the
\* AUDIO_END carries.
C2_MissingFragmentDetected ==
  [][(/\ EndProcessed
      /\ g_state = STATE_RECEIVING
      /\ l_total_frags >= 1
      /\ ch_lost + tx_failed = 1
      /\ ch_flipped = 0)
       => /\ Len(rx_tx') = 1
          /\ IsAck(rx_tx'[1], RxHdr.seq_num, ACK_STATUS_MISSING)
          /\ g_state' = STATE_IDLE
          /\ rx_sink' = <<>>]_vars

\* one of 22 fragments was lost on the air and the AUDIO_END found 21
C2_Witness ==
  /\ rx_ret = "end_missing"
  /\ rx_from.state = STATE_RECEIVING
  /\ ch_lost = 1
  /\ l_total_frags = MAX_FRAGS
  /\ g_frags_rx = MAX_FRAGS - 1
  /\ g_state = STATE_IDLE
  /\ rx_sink = <<>>

\* C3: when AUDIO_END arrives in RECEIVING with no fragment slot missing and
\* carries the crc32 of the sender's audio, and the accumulated bytes differ
\* from that audio in exactly one byte, the receiver sends
\* Ack(seq, CHECKSUM_ERROR), goes to IDLE and does not invoke the sink.
C3_CorruptionDetected ==
  [][(/\ EndProcessed
      /\ g_state = STATE_RECEIVING
      /\ \A i \in 0..(g_total_frags - 1) : g_frag_received[i]
      /\ RdU32(PayloadBuf, 2) = l_audio_crc
      /\ g_audio_len = DEMO_AUDIO_LEN
      /\ Cardinality(DifferingBytes) = 1)
       => /\ Len(rx_tx') = 1
          /\ IsAck(rx_tx'[1], RxHdr.seq_num, ACK_STATUS_CRC_ERR)
          /\ g_state' = STATE_IDLE
          /\ rx_sink' = <<>>]_vars

\* a byte of one of 22 fragments was changed and the AUDIO_END was refused
C3_Witness ==
  /\ rx_ret = "end_crc"
  /\ rx_from.state = STATE_RECEIVING
  /\ ch_flipped = 1
  /\ g_frags_rx = MAX_FRAGS
  /\ g_audio_len = DEMO_AUDIO_LEN
  /\ Cardinality(DifferingBytes) = 1
  /\ g_state = STATE_IDLE
  /\ rx_sink = <<>>

\* C4: an AUDIO_START with a correct CRC-16 and total_frags above MAX_FRAGS is
\* answered with exactly one Ack(seq, FRAGMENTS_MISSING) and changes no session
\* variable, in IDLE as in RECEIVING.
C4_OversizedStartRejected ==
  [][(StartProcessed /\ Crc16Correct /\ RxTotalFrags > MAX_FRAGS)
       => /\ Len(rx_tx') = 1
          /\ IsAck(rx_tx'[1], RxHdr.seq_num, ACK_STATUS_MISSING)
          /\ UNCHANGED session]_vars

\* an oversized AUDIO_START was rejected in the middle of a transfer
C4_Witness ==
  /\ rx_ret = "start_too_many"
  /\ rx_from.state = STATE_RECEIVING
  /\ rx_from.frags_rx > 0
  /\ g_state = STATE_RECEIVING
  /\ Len(rx_tx) = 1

\* C5: a frame of at least header length whose dst_id is not this node's id
\* changes no session variable, is not acknowledged and reaches no sink,
\* whatever the receiver state and the packet type.
C5_AddressingIsolation ==
  [][(/\ rx_pc = "dispatch"
      /\ rx_status = RADIOLIB_ERR_NONE
      /\ PktLen >= LORA_HEADER_SIZE
      /\ RxHdr.dst_id # RX_MY_NODE_ID)
       => /\ UNCHANGED session
          /\ rx_tx' = <<>>
          /\ rx_sink' = <<>>]_vars

\* a frame for another node was dropped in the middle of a transfer
C5_Witness ==
  /\ rx_ret = "not_for_me"
  /\ rx_from.state = STATE_RECEIVING
  /\ rx_from.frags_rx > 0
  /\ rx_tx = <<>>

\* C6: an AUDIO_START whose recomputed CRC-16 differs from its crc16 field is
\* answered with exactly one Ack(seq, CHECKSUM_ERROR), starts no session, and
\* leaves the receiver in IDLE whatever state it was in.
C6_BadCrcStartEndsInIdle ==
  [][(StartProcessed /\ ~Crc16Correct)
       => /\ Len(rx_tx') = 1
          /\ IsAck(rx_tx'[1], RxHdr.seq_num, ACK_STATUS_CRC_ERR)
          /\ g_state' = STATE_IDLE]_vars

\* C7: an AUDIO_START with a correct CRC-16 and total_frags <= MAX_FRAGS
\* leaves the receiver in RECEIVING with both counts 0, every marker cleared,
\* the buffer zeroed, the session id and the metadata those of the frame, and
\* sends Ack(seq, OK), from every receiver state.
C7_ValidStartSupersedes ==
  [][(StartProcessed /\ Crc16Correct /\ RxTotalFrags <= MAX_FRAGS)
       => /\ g_state' = STATE_RECEIVING
          /\ g_frags_rx' = 0
          /\ g_audio_len' = 0
          /\ DOMAIN g_frag_received' = 0..(MAX_FRAGS - 1)
          /\ \A i \in 0..(MAX_FRAGS - 1) : ~g_frag_received'[i]
          /\ Len(g_audio_buf') = MAX_AUDIO_BYTES
          /\ \A i \in 1..MAX_AUDIO_BYTES : g_audio_buf'[i] = 0
          /\ g_session_id' = RxHdr.session_id
          /\ g_total_frags' = RxTotalFrags
          /\ g_codec_id' = PayloadBuf[3]
          /\ g_sample_hz' = RdU16(PayloadBuf, 3)
          /\ g_duration_ms' = RdU16(PayloadBuf, 5)
          /\ g_total_size' = RdU32(PayloadBuf, 7)
          /\ Len(rx_tx') = 1
          /\ IsAck(rx_tx'[1], RxHdr.seq_num, ACK_STATUS_OK)]_vars

\* a valid AUDIO_START replaced a session that had received fragments
C7_Witness ==
  /\ rx_ret = "start_ok"
  /\ rx_from.state = STATE_RECEIVING
  /\ rx_from.frags_rx > 0
  /\ g_state = STATE_RECEIVING
  /\ g_frags_rx = 0
  /\ g_audio_buf = ClearedBuffer

\* C8: in RECEIVING with k < MAX_FRAGS fragments received, an AUDIO_DATA frame
\* of n payload bytes writes them at offset k * 245, sets marker k, adds n to
\* the byte count and 1 to the fragment count, sends Ack(seq, OK), and leaves
\* the state, the other markers, the other bytes and the metadata unchanged.
C8_AcceptedData ==
  [][(DataProcessed /\ g_state = STATE_RECEIVING /\ g_frags_rx < MAX_FRAGS)
       => LET k == g_frags_rx
              n == PayloadLen
          IN /\ \A i \in 1..n :
                  g_audio_buf'[(k * LORA_MAX_DATA_PAYLOAD) + i] = PayloadBuf[i]
             /\ \A i \in 1..MAX_AUDIO_BYTES :
                  (i <= k * LORA_MAX_DATA_PAYLOAD
                   \/ i > (k * LORA_MAX_DATA_PAYLOAD) + n)
                    => g_audio_buf'[i] = g_audio_buf[i]
             /\ g_frag_received'[k]
             /\ \A j \in 0..(MAX_FRAGS - 1) :
                  j # k => g_frag_received'[j] = g_frag_received[j]
             /\ g_audio_len' = g_audio_len + n
             /\ g_frags_rx' = k + 1
             /\ Len(rx_tx') = 1
             /\ IsAck(rx_tx'[1], RxHdr.seq_num, ACK_STATUS_OK)
             /\ g_state' = STATE_RECEIVING
             /\ UNCHANGED <<g_session_id, g_total_frags, g_codec_id,
                            g_sample_hz, g_duration_ms, g_total_size>>]_vars

\* the last slot of the buffer was filled by a full fragment
C8_Witness ==
  /\ rx_ret = "data_ok"
  /\ rx_from.frags_rx = MAX_FRAGS - 1
  /\ g_frags_rx = MAX_FRAGS
  /\ g_audio_len = MAX_AUDIO_BYTES
  /\ g_frag_received[MAX_FRAGS - 1]

\* C9: an AUDIO_DATA frame handled in IDLE changes no session variable and is
\* not acknowledged.
C9_DataWhileIdleDropped ==
  [][(DataProcessed /\ g_state = STATE_IDLE)
       => /\ UNCHANGED session
          /\ rx_tx' = <<>>
          /\ rx_sink' = <<>>]_vars

\* a fragment was dropped in IDLE after a transfer that had received some
C9_Witness ==
  /\ rx_ret = "data_no_session"
  /\ rx_from.state = STATE_IDLE
  /\ g_state = STATE_IDLE
  /\ g_frags_rx > 0
  /\ rx_tx = <<>>

\* C10: in RECEIVING with MAX_FRAGS fragments received, a further AUDIO_DATA
\* frame is dropped: no acknowledgment, and buffer, markers, byte count,
\* fragment count and state unchanged.
C10_OverflowGuard ==
  [][(DataProcessed /\ g_state = STATE_RECEIVING /\ g_frags_rx >= MAX_FRAGS)
       => /\ UNCHANGED session
          /\ rx_tx' = <<>>
          /\ rx_sink' = <<>>]_vars

\* a 23rd fragment was dropped
C10_Witness ==
  /\ rx_ret = "data_out_of_range"
  /\ rx_from.state = STATE_RECEIVING
  /\ rx_from.frags_rx = MAX_FRAGS
  /\ g_frags_rx = MAX_FRAGS
  /\ rx_tx = <<>>

\* the statuses handleAudioEnd answers with
EndStatuses == {ACK_STATUS_OK, ACK_STATUS_CRC_ERR, ACK_STATUS_MISSING}

\* C11: while a frame is processed the sink is invoked if and only if the
\* frame is an AUDIO_END the receiver answers with Ack(seq, OK); every
\* AUDIO_END processed in RECEIVING with a long-enough payload sends exactly
\* one Ack, with status OK, CHECKSUM_ERROR or FRAGMENTS_MISSING, and leaves
\* the receiver in IDLE.
C11_NoPartialDelivery ==
  [][rx_pc = "dispatch"
       => /\ (rx_sink' # <<>>)
               <=> /\ EndProcessed
                   /\ Len(rx_tx') = 1
                   /\ IsAck(rx_tx'[1], RxHdr.seq_num, ACK_STATUS_OK)
          /\ Len(rx_sink') <= 1
          /\ (EndProcessed /\ g_state = STATE_RECEIVING)
               => /\ Len(rx_tx') = 1
                  /\ \E st \in EndStatuses :
                       IsAck(rx_tx'[1], RxHdr.seq_num, st)
                  /\ g_state' = STATE_IDLE]_vars

\* an AUDIO_END was processed in RECEIVING with fragments missing: one Ack,
\* no sink call, IDLE
C11_Witness ==
  /\ rx_ret = "end_missing"
  /\ rx_from.state = STATE_RECEIVING
  /\ rx_from.frags_rx > 0
  /\ Len(rx_tx) = 1
  /\ rx_sink = <<>>
  /\ g_state = STATE_IDLE

----------------------------------------------------------------------------
(* The receiver's polling loop under fair scheduling: loop() calls           *)
(* receivePacket again and again, radio.receive returns within its timeout   *)
(* (with a frame, a timeout or an error) and the handler of what it returned *)
(* runs to its end. Nothing makes the channel deliver a frame.               *)

SpecFair ==
  /\ Spec
  /\ WF_vars(PeerSends)
  /\ WF_vars(ReceivePacket)
  /\ WF_vars(RxLoop)

\* C12: whenever the receiver is in RECEIVING it eventually is in IDLE
\* again, on a channel that may lose frames (the AUDIO_END frame included),
\* under fair scheduling of the polling loop.
C12_ReceivingLeadsToIdle ==
  (g_state = STATE_RECEIVING) ~> (g_state = STATE_IDLE)

\* the handled frame is an AUDIO_START that handleAudioStart accepts
ValidStartProcessed ==
  /\ StartProcessed
  /\ Crc16Correct
  /\ RxTotalFrags <= MAX_FRAGS

\* this step sets a fragment counter back to zero or unmarks a slot
CountersCleared ==
  \/ g_frags_rx > 0 /\ g_frags_rx' = 0
  \/ g_audio_len > 0 /\ g_audio_len' = 0
  \/ \E i \in 0..(MAX_FRAGS - 1) : g_frag_received[i] /\ ~g_frag_received'[i]

\* C13: every step from RECEIVING to IDLE is the processing of an AUDIO_END
\* frame; every step from IDLE to RECEIVING, and every step that clears the
\* fragment counters or markers, is the processing of a valid AUDIO_START;
\* no other event (DATA, ACK, unknown type, receive timeout, radio error,
\* short or misaddressed frame) changes the state variable.
C13_AbandonedOnlyByEndOrStart ==
  [][/\ (g_state = STATE_RECEIVING /\ g_state' = STATE_IDLE) => EndProcessed
     /\ (g_state = STATE_IDLE /\ g_state' = STATE_RECEIVING)
          => ValidStartProcessed
     /\ CountersCleared => ValidStartProcessed
     /\ ~(EndProcessed \/ ValidStartProcessed) => g_state' = g_state]_vars

\* an AUDIO_END with the wrong crc32 took the receiver, all fragments in,
\* from RECEIVING to IDLE
C13_Witness ==
  /\ rx_ret = "end_crc"
  /\ rx_from.state = STATE_RECEIVING
  /\ rx_from.frags_rx > 0
  /\ g_state = STATE_IDLE
  /\ g_frags_rx = rx_from.frags_rx

----------------------------------------------------------------------------
(* Properties of the LoRaManager, stated on the step that is one call of a   *)
(* method.                                                                   *)

\* this step is a call of the method op
Called(op) == e_calls' = e_calls + 1 /\ e_op' = op

\* this step is a call of sendAudioStart or sendAudioEnd, or a call of
\* sendAudioData that is not rejected
SendCalled ==
  \/ Called("sendAudioStart")
  \/ Called("sendAudioEnd")
  \/ Called("sendAudioData") /\ e_in'.len <= LORA_MAX_DATA_PAYLOAD

\* C14: every call of sendStart and of sendEnd and every call of sendData
\* that is not rejected puts the current value of the sequence counter in the
\* frame header and then advances the counter by one (as a uint16), whether
\* or not the transmit succeeds; the frames one sender builds carry
\* consecutive sequence numbers.
C14_SequenceCounterAdvance ==
  [][SendCalled
       => /\ e_sent' # <<>>
          /\ HdrIds(e_sent'[1]).seq_num = _seq_num
          /\ _seq_num' = (_seq_num + 1) % 65536
          /\ e_first # <<>>
               => HdrIds(e_sent'[1]).seq_num
                    = (e_first[1].seq_num + e_built) % 65536]_vars

\* two frames were built, the second by a sendAudioData whose transmit
\* failed, and the counter is one past the number in its header
C14_Witness ==
  /\ e_op = "sendAudioData"
  /\ e_in.tx_state = RADIOLIB_ERR_TX_TIMEOUT
  /\ ~e_ret
  /\ e_built = 2
  /\ HdrIds(e_sent[1]).seq_num = 1
  /\ _seq_num = 2

\* C15: no two frames constructed by one sender under the same session
\* identifier carry the same seq_num, however many frames are sent: a frame
\* built after the first never carries the first frame's session_id and
\* seq_num.
C15_SequenceNumbersNeverRepeat ==
  [][(SendCalled /\ e_first # <<>>)
       => HdrIds(e_sent'[1]) # e_first[1]]_vars

----------------------------------------------------------------------------
(* Properties of the sender sketch                                           *)

\* this step is a call of loop() whose sendAudioStart put its frame on the air
StartSent == tx_pc = "loop" /\ tx_pc' = "wait_start"

\* the receiver has accepted the AUDIO_START of an earlier transfer (the
\* sketch announces 8000 Hz) and holds that transfer's session_id
EarlierStartAccepted == g_sample_hz = 8000

\* C16: at the start of each new transfer (the first, and each one that
\* follows a transfer the receiver accepted the AUDIO_START of) the
\* AUDIO_START header carries seq_num 0, and the session_id of the transfer's
\* headers differs from the session_id of the transfer before.
C16_SessionRenewal ==
  [][(StartSent /\ (loops > 0 => EarlierStartAccepted))
       => /\ HdrIds(air').seq_num = 0
          /\ loops > 0 => HdrIds(air').session_id # g_session_id]_vars

\* C17: a call of sendData with length greater than 245 returns failure,
\* transmits no frame and leaves sequence counter and session id unchanged;
\* a call with length <= 245 builds and transmits exactly one AUDIO_DATA
\* frame.
C17_SendDataRejection ==
  [][Called("sendAudioData")
       => IF e_in'.len > 245
          THEN /\ ~e_ret'
               /\ e_sent' = <<>>
               /\ air' = <<>>
               /\ UNCHANGED <<_seq_num, _session_id>>
          ELSE /\ Len(e_sent') = 1
               /\ getType(e_sent'[1][1]) = PKT_AUDIO_DATA]_vars

\* after a sendAudioStart, sendAudioData was called with len 246: failure,
\* nothing transmitted, the counter where sendAudioStart left it
C17_Witness ==
  /\ e_op = "sendAudioData"
  /\ e_in.len = 246
  /\ ~e_ret
  /\ e_sent = <<>>
  /\ e_built = 1
  /\ _seq_num = 1

C19_WaitForAckAcceptance ==
  [][Called("waitForAck")
       => /\ e_ret' <=> /\ e_in'.rx_state = RADIOLIB_ERR_NONE
                        /\ Len(e_in'.rx_frame) >= 13
                        /\ IsAck(SubSeq(e_in'.rx_frame, 1, 13),
                                 e_in'.expected_seq, ACK_STATUS_OK)
          /\ UNCHANGED <<_seq_num, _session_id>>
          /\ e_sent' = <<>>]_vars

\* after one frame was built, waitForAck was called for its sequence number
\* and returned success on a 13-byte acknowledgment
C19_Witness ==
  /\ e_op = "waitForAck"
  /\ e_ret
  /\ e_built = 1
  /\ _seq_num = 1
  /\ e_in.expected_seq = 0
  /\ Len(e_in.rx_frame) = 13

\* C20: each call of sendStart, sendData or sendEnd invokes the transmit
\* primitive at most once and returns that attempt's success or failure; a
\* failed transmit is not repeated.
C20_NoRetry ==
  [][(Called("sendAudioStart") \/ Called("sendAudioData")
        \/ Called("sendAudioEnd"))
       => /\ Len(e_sent') <= 1
          /\ e_ret' <=> /\ Len(e_sent') = 1
                        /\ e_in'.tx_state = RADIOLIB_ERR_NONE]_vars

\* a sendAudioEnd whose one transmit failed returned failure
C20_Witness ==
  /\ e_op = "sendAudioEnd"
  /\ e_in.tx_state = RADIOLIB_ERR_TX_TIMEOUT
  /\ ~e_ret
  /\ Len(e_sent) = 1
  /\ getType(e_sent[1][1]) = PKT_AUDIO_END
  /\ air = <<>>

----------------------------------------------------------------------------
(* The functions of packet.h and loraProtocol.cpp on their own: a structure  *)
(* is serialized and the bytes are deserialized, two nibbles are packed and  *)
(* unpacked, a checksum is computed twice over the same bytes, and a         *)
(* structure is deserialized from a buffer that holds fewer bytes than it.   *)

\* values of the four packed structs, with the extremes of every field
HeaderValues ==
  [ver_type : {17, 255}, src_id : {0, 1}, dst_id : {2, 255}, exp_id : {1},
   session_id : {0, 4660, 65535}, seq_num : {0, 43981, 65535},
   tx_pow : {14}, sf_cr : {0, 117}]

AudioStartValues ==
  [total_frags : {0, 3, 65535}, codec_id : {CODEC_RAW_PCM, CODEC_COMPRESSED},
   sample_hz : {8000, 65535}, duration_ms : {0, 1000},
   total_size : {<<0, 0>>, <<0, 512>>, <<4660, 22136>>, <<65535, 65535>>},
   crc16 : {0, 48879}]

AudioEndValues ==
  [frag_count : {0, 3, 65535},
   crc32 : {<<0, 0>>, <<52212, 14630>>, <<1, 0>>, <<65535, 65535>>},
   reserved : {0, 255}]

AckValues ==
  [ack_seq : {0, 1, 4660, 65535},
   status : {ACK_STATUS_OK, ACK_STATUS_CRC_ERR, ACK_STATUS_MISSING, 255}]

StructKinds == {"Header", "AudioStart", "AudioEnd", "Ack"}

\* sizeof of the struct of this kind
SizeOf(kind) ==
  CASE kind = "Header" -> LORA_HEADER_SIZE
    [] kind = "AudioStart" -> SIZEOF_AudioStartPayload
    [] kind = "AudioEnd" -> SIZEOF_AudioEndPayload
    [] kind = "Ack" -> SIZEOF_AckPayload

Serialize(kind, v) ==
  CASE kind = "Header" -> serializeHeader(v)
    [] kind = "AudioStart" -> serializeAudioStart(v)
    [] kind = "AudioEnd" -> serializeAudioEnd(v)
    [] kind = "Ack" -> serializeAck(v)

Deserialize(kind, buf) ==
  CASE kind = "Header" -> deserializeHeader(buf)
    [] kind = "AudioStart" -> deserializeAudioStart(buf)
    [] kind = "AudioEnd" -> deserializeAudioEnd(buf)
    [] kind = "Ack" -> deserializeAck(buf)

\* the bytes "123456789"
CheckString == <<49, 50, 51, 52, 53, 54, 55, 56, 57>>

ChecksumInputs ==
  {<<>>, CheckString, <<0>>, <<255>>, <<0, 0>>, <<1, 2, 3>>,
   Repeat(<<255>>, 4), Repeat(<<0>>, 11)}

\* buffers that hold fewer bytes than the struct read from them
ShortBuffers(kind) ==
  {[of |-> kind, bytes |-> Repeat(<<b>>, n)]
     : b \in {1, 170}, n \in {0, 1, SizeOf(kind) - 1}}

\* what lies in memory behind a buffer
BytesBeyond == {0, 90, 255}

\* the functions of this kind are applied to a value of S
Drawn(kind, S) == \E x \in S : c_arg = [kind |-> kind, v |-> x]

ProtocolArgs ==
  \/ Drawn("Header", HeaderValues)
  \/ Drawn("AudioStart", AudioStartValues)
  \/ Drawn("AudioEnd", AudioEndValues)
  \/ Drawn("Ack", AckValues)
  \/ \E k \in {"VerType", "SFCR"} : Drawn(k, (0..15) \X (0..15))
  \/ \E k \in {"crc16", "crc32"} : Drawn(k, ChecksumInputs)
  \/ \E k \in StructKinds : Drawn("buffer", ShortBuffers(k))

InitProtocol ==
  /\ RxInit
  /\ SenderOff
  /\ ChannelInit
  /\ peer_credit = 0
  /\ EngineIdle
  /\ ProtocolArgs
  /\ c_res = <<>>

\* a call returns r
Applied(r) ==
  /\ c_res' = Append(c_res, r)
  /\ UNCHANGED <<c_arg, session, rxio, sender, channel, peer_credit, engine,
                 clock>>

SerializeCall ==
  /\ c_arg.kind \in StructKinds
  /\ Len(c_res) = 0
  /\ Applied(Serialize(c_arg.kind, c_arg.v))

DeserializeCall ==
  /\ c_arg.kind \in StructKinds
  /\ Len(c_res) = 1
  /\ Applied(Deserialize(c_arg.kind, c_res[1]))

MakeCall ==
  /\ Len(c_res) = 0
  /\ \/ c_arg.kind = "VerType" /\ Applied(makeVerType(c_arg.v[1], c_arg.v[2]))
     \/ c_arg.kind = "SFCR" /\ Applied(makeSFCR(c_arg.v[1], c_arg.v[2]))

GetCall ==
  /\ Len(c_res) = 1
  /\ \/ /\ c_arg.kind = "VerType"
        /\ Applied(<<getVersion(c_res[1]), getType(c_res[1])>>)
     \/ /\ c_arg.kind = "SFCR"
        /\ Applied(<<getSF(c_res[1]), getCodingRate(c_res[1])>>)

ChecksumCall ==
  /\ Len(c_res) < 2
  /\ \/ c_arg.kind = "crc16" /\ Applied(crc16(c_arg.v, Len(c_arg.v)))
     \/ c_arg.kind = "crc32" /\ Applied(crc32(c_arg.v, Len(c_arg.v)))

\* deserialize...(buf, out) is passed no length, returns void and copies
\* sizeof(*out) bytes: those behind the end of the buffer are whatever lies
\* there. error: whether the caller is told of a failure; read: the bytes
\* read from buf; out: the struct left in *out
DeserializeShortCall ==
  /\ c_arg.kind = "buffer"
  /\ Len(c_res) = 0
  /\ \E b \in BytesBeyond :
       LET size == SizeOf(c_arg.v.of)
           mem == c_arg.v.bytes \o Repeat(<<b>>, size - Len(c_arg.v.bytes))
       IN Applied([error |-> FALSE, read |-> size,
                   out |-> Deserialize(c_arg.v.of, mem)])

NextProtocol ==
  \/ SerializeCall
  \/ DeserializeCall
  \/ MakeCall
  \/ GetCall
  \/ ChecksumCall
  \/ DeserializeShortCall

SpecProtocol == InitProtocol /\ [][NextProtocol]_vars

----------------------------------------------------------------------------
(* Properties of the codec and the checksums *)

C22_BitPackingInverse ==
  (c_arg.kind \in {"VerType", "SFCR"} /\ Len(c_res) = 2) =>
    /\ c_res[1] \in 0..255
    /\ c_res[2] = c_arg.v

C22_Witness ==
  /\ c_arg.kind = "SFCR"
  /\ c_arg.v = <<7, 5>>
  /\ Len(c_res) = 2
  /\ c_res[1] = 117
  /\ c_res[2] = <<7, 5>>

\* C23: crc32 returns 0xCBF43926 for the nine bytes "123456789" and 0 for no
\* bytes, crc16 returns 0xFFFF for no bytes, and a second call of either on
\* the same bytes returns what the first call returned.
C23_ChecksumReferenceValues ==
  /\ (c_arg.kind = "crc32" /\ Len(c_res) >= 1) =>
       /\ c_arg.v = CheckString => c_res[1] = <<52212, 14630>>
       /\ c_arg.v = <<>> => c_res[1] = <<0, 0>>
  /\ (c_arg.kind = "crc16" /\ Len(c_res) >= 1) =>
       (c_arg.v = <<>> => c_res[1] = 65535)
  /\ (c_arg.kind \in {"crc16", "crc32"} /\ Len(c_res) = 2) =>
       c_res[2] = c_res[1]

C23_Witness ==
  /\ c_arg.kind = "crc32"
  /\ c_arg.v = CheckString
  /\ c_res = <<<<52212, 14630>>, <<52212, 14630>>>>

----------------------------------------------------------------------------
(* Properties of the sender engine facing the receiver *)

\* C24: the crc16 field of the AUDIO_START that sendStart builds holds the
\* crc16 of the 11 payload bytes before it (total_frags, codec_id, sample_hz,
\* duration_ms, total_size), and the receiver handling that frame unchanged
\* computes the same value over the same 11 bytes: it never answers
\* Ack(CHECKSUM_ERROR), whatever the parameter values.
C24_StartChecksumAgreement ==
  [][/\ (Called("sendAudioStart") /\ e_sent' # <<>>) =>
          /\ Len(e_sent'[1]) = 23
          /\ RdU16(e_sent'[1], 21) = crc16(SubSeq(e_sent'[1], 11, 21), 11)
     /\ (StartProcessed /\ e_op = "sendAudioStart" /\ e_sent # <<>>
           /\ rx_buf = e_sent[1]) =>
          /\ Crc16Correct
          /\ rx_ret' \in {"start_ok", "start_too_many"}
          /\ Len(rx_tx') = 1
          /\ ~IsAck(rx_tx'[1], RxHdr.seq_num, ACK_STATUS_CRC_ERR)]_vars

C24_Witness ==
  /\ e_op = "sendAudioStart"
  /\ e_ret
  /\ Len(e_sent) = 1
  /\ RdU16(e_sent[1], 10) = MAX_FRAGS
  /\ RdU32(e_sent[1], 17) = <<65535, 65535>>
  /\ rx_pc = "returned"
  /\ rx_ret = "start_ok"
  /\ g_state = STATE_RECEIVING
  /\ g_total_size = <<65535, 65535>>
  /\ Len(rx_tx) = 1
  /\ IsAck(rx_tx[1], RdU16(e_sent[1], 6), ACK_STATUS_OK)

\* C25: decoding a Header, an AudioStart, an AudioEnd or an Ack from a buffer
\* that holds fewer bytes than the structure (10, 13, 7, 3) fails with an
\* explicit decode error and reads no byte beyond the bytes provided.
C25_ShortBufferDecoding ==
  (c_arg.kind = "buffer" /\ Len(c_res) = 1) =>
    /\ c_res[1].error
    /\ c_res[1].read <= Len(c_arg.v.bytes)

----------------------------------------------------------------------------
(* Properties of the sender sketch: framing of one transfer *)

\* tf is the least number of 245-byte fragments that hold size bytes
IsCeiling(tf, size) ==
  /\ tf * 245 >= size
  /\ tf > 0 => (tf - 1) * 245 < size

\* this step is a pass of the DATA loop; this step is the call of sendAudioEnd
DataPass == tx_pc = "data" /\ l_frag' = l_frag + 1
EndCall == tx_pc = "data" /\ tx_pc' = "wait_end"

\* C26: for a payload of total_size bytes the AUDIO_START announces
\* total_frags = ceil(total_size / 245), the DATA loop makes exactly that many
\* passes, each for 245 bytes except the last, which takes the rest, the
\* sizes adding up to total_size; 512 bytes give three fragments of 245, 245
\* and 22 bytes.
C26_FragmentArithmetic ==
  [][/\ (tx_pc = "loop" /\ tx_pc' = "wait_start") =>
          /\ IsCeiling(l_total_frags', DEMO_AUDIO_LEN)
          /\ RdU16(air', 10) = l_total_frags'
          /\ RdU32(air', 17) = ToU32(DEMO_AUDIO_LEN)
     /\ DataPass =>
          LET size == l_offset' - l_offset
          IN /\ l_frag + 1 < l_total_frags => size = 245
             /\ l_frag + 1 = l_total_frags =>
                  /\ size = DEMO_AUDIO_LEN - 245 * l_frag
                  /\ size \in 1..245
             /\ air' # <<>> =>
                  /\ getType(air'[1]) = PKT_AUDIO_DATA
                  /\ Len(air') = LORA_HEADER_SIZE + size
             /\ DEMO_AUDIO_LEN = 512 => size = <<245, 245, 22>>[l_frag + 1]
     /\ EndCall =>
          /\ l_frag = l_total_frags
          /\ l_offset = DEMO_AUDIO_LEN
          /\ DEMO_AUDIO_LEN = 512 => l_frag = 3]_vars

C26_Witness ==
  /\ DEMO_AUDIO_LEN = 512
  /\ tx_pc = "wait_end"
  /\ l_total_frags = 3
  /\ l_frag = 3
  /\ l_offset = 512

----------------------------------------------------------------------------
(* Properties of the receiver: frames that belong to no session *)

\* the handled frame is an AUDIO_START or an AUDIO_END too short to hold
\* its payload
ShortControlProcessed ==
  \/ Dispatched(PKT_AUDIO_START) /\ PayloadLen < 13
  \/ Dispatched(PKT_AUDIO_END) /\ PayloadLen < 7

\* C27: an AUDIO_START whose payload is shorter than 13 bytes and an
\* AUDIO_END whose payload is shorter than 7 bytes are not acknowledged and
\* change no session variable; a short AUDIO_END handled in RECEIVING leaves
\* the receiver in RECEIVING.
C27_MalformedControlDropped ==
  [][ShortControlProcessed
       => /\ UNCHANGED session
          /\ rx_tx' = <<>>
          /\ rx_sink' = <<>>
          /\ g_state = STATE_RECEIVING => g_state' = STATE_RECEIVING]_vars

\* an AUDIO_END of six payload bytes was dropped in the middle of a transfer
C27_Witness ==
  /\ rx_ret = "end_short"
  /\ rx_from.state = STATE_RECEIVING
  /\ g_state = STATE_RECEIVING
  /\ g_frags_rx > 0
  /\ rx_tx = <<>>

\* radio.receive returned a timeout, a radio error, a frame shorter than 10
\* bytes, or a frame for this node whose type nibble is none of START (1),
\* DATA (2) and END (3)
NonSessionEvent ==
  /\ rx_pc = "dispatch"
  /\ \/ rx_status # RADIOLIB_ERR_NONE
     \/ Len(rx_buf) < 10
     \/ /\ rx_buf[3] = RX_MY_NODE_ID
        /\ rx_buf[1] % 16 \notin {1, 2, 3}

\* C28: a receive timeout, a radio error, a frame shorter than 10 bytes and a
\* frame for the receiver of type ACK or of any type other than START, DATA
\* and END each leave every session variable unchanged and send nothing, and
\* after the call has returned the polling loop calls receive again.
C28_NonSessionEventsInert ==
  [][/\ NonSessionEvent
          => /\ UNCHANGED session
             /\ rx_tx' = <<>>
             /\ rx_sink' = <<>>
             /\ rx_pc' = "returned"
     /\ rx_pc = "returned"
          => /\ rx_pc' = "receive"
             /\ UNCHANGED session]_vars

\* an ACK frame for this node was ignored in the middle of a transfer
C28_Witness ==
  /\ rx_pc = "returned"
  /\ rx_ret = "unknown_type"
  /\ rx_from.state = STATE_RECEIVING
  /\ rx_from.frags_rx > 0
  /\ g_state = STATE_RECEIVING
  /\ g_frags_rx = rx_from.frags_rx
  /\ rx_tx = <<>>

\* this step is the call of sendAudioStart in loop()
StartCall == tx_pc = "loop" /\ loops' = loops + 1

\* frame has this type and this sequence number in its header
Carries(frame, type, seq) ==
  /\ getType(frame[1]) = type
  /\ RdU16(frame, 6) = seq

\* C29: a transfer whose AUDIO_START is transmitted goes on, whatever
\* waitForAck returns, to exactly total_frags calls of sendData in payload
\* order, a failed transmit among them stopping nothing, and then to one
\* AUDIO_END; the frames carry the sequence numbers s, s+1, ...,
\* s+total_frags+1 counted from the AUDIO_START's s. When the AUDIO_START
\* transmit fails, the attempt ends there and no DATA or END is built.
C29_SenderFrameOrdering ==
  [][/\ StartCall =>
          /\ _seq_num' = _seq_num + 1
          /\ \/ tx_pc' = "wait_start" /\ Carries(air', PKT_AUDIO_START, _seq_num)
             \/ tx_pc' = "loop" /\ air' = <<>>
     /\ (tx_pc = "wait_start" /\ tx_pc' # tx_pc) =>
          /\ tx_pc' = "data"
          /\ l_frag' = 0
          /\ _seq_num' = _seq_num
     /\ DataPass =>
          /\ l_frag < l_total_frags
          /\ tx_pc' = "data"
          /\ _seq_num' = _seq_num + 1
          /\ air' # <<>> =>
               /\ Carries(air', PKT_AUDIO_DATA, _seq_num)
               /\ SubSeq(air', LORA_HEADER_SIZE + 1, Len(air'))
                    = SubSeq(DEMO_AUDIO[demo], 245 * l_frag + 1,
                             Min(245 * (l_frag + 1), DEMO_AUDIO_LEN))
     /\ EndCall =>
          /\ l_frag = l_total_frags
          /\ _seq_num' = _seq_num + 1
          /\ air' # <<>> => Carries(air', PKT_AUDIO_END, _seq_num)
     /\ (tx_pc = "wait_end" /\ tx_pc' # tx_pc) =>
          /\ tx_pc' = "loop"
          /\ _seq_num' = _seq_num
     /\ _seq_num' # _seq_num => (StartCall \/ DataPass \/ EndCall)
     /\ (loops' = 1 /\ StartCall) => _seq_num = s_seq_num
     /\ (loops = 1 /\ DataPass) => _seq_num = s_seq_num + 1 + l_frag
     /\ (loops = 1 /\ EndCall) => _seq_num = s_seq_num + l_total_frags + 1]_vars

\* the AUDIO_END of a 512-byte transfer is on the air with sequence number 4
\* after a DATA transmit has failed
C29_Witness ==
  /\ DEMO_AUDIO_LEN = 512
  /\ tx_pc = "wait_end"
  /\ tx_failed = 1
  /\ l_frag = 3
  /\ air # <<>>
  /\ Carries(air, PKT_AUDIO_END, 4)
  /\ _seq_num = 5

----------------------------------------------------------------------------
(* Properties of the receiver: acknowledgments and invariants of a session *)

\* C31: handling one inbound frame transmits at most one ACK frame; its
\* ack_seq and its header seq_num are the header seq_num of the frame
\* handled, its status is OK (0), CHECKSUM_ERROR (1) or FRAGMENTS_MISSING (2),
\* its source id is 0x02 and its destination id 0x01.
C31_AckIdentity ==
  [][rx_pc = "dispatch" =>
       /\ Len(rx_tx') <= 1
       /\ rx_tx' # <<>> =>
            /\ Len(rx_tx'[1]) = 13
            /\ getType(rx_tx'[1][1]) = PKT_ACK
            /\ rx_tx'[1][2] = 2
            /\ rx_tx'[1][3] = 1
            /\ RdU16(rx_tx'[1], 6) = RdU16(rx_buf, 6)
            /\ RdU16(rx_tx'[1], 10) = RdU16(rx_buf, 6)
            /\ rx_tx'[1][13] \in {0, 1, 2}]_vars

\* an AUDIO_END with sequence number 303 was answered FRAGMENTS_MISSING
C31_Witness ==
  /\ rx_pc = "returned"
  /\ rx_ret = "end_missing"
  /\ Len(rx_tx) = 1
  /\ IsAck(rx_tx[1], 303, ACK_STATUS_MISSING)
  /\ RdU16(rx_tx[1], 6) = 303
  /\ rx_tx[1][2] = 2
  /\ rx_tx[1][3] = 1

\* C33: an AUDIO_END handled while the receiver is IDLE, before any
\* AUDIO_START or after a transfer has ended, is not answered with Ack(OK)
\* and does not invoke the audio sink.
C33_EndOnlyInReceiving ==
  [][(EndProcessed /\ g_state = STATE_IDLE)
       => /\ rx_sink' = <<>>
          /\ \A i \in 1..Len(rx_tx') :
               ~IsAck(rx_tx'[i], RxHdr.seq_num, ACK_STATUS_OK)]_vars

\* C34: in every state of the receiver marker i is set exactly when i is less
\* than the count of fragments received, for 0 <= i < 22, so that the number
\* of unmarked slots below total_frags is max(0, total_frags - count).
C34_MarkerPrefix ==
  /\ \A i \in 0..21 : g_frag_received[i] <=> i < g_frags_rx
  /\ MissingFrags(g_frag_received, g_total_frags)
       = IF g_total_frags > g_frags_rx THEN g_total_frags - g_frags_rx ELSE 0

\* two fragments of 22 are in
C34_Witness ==
  /\ g_state = STATE_RECEIVING
  /\ g_total_frags = 22
  /\ g_frags_rx = 2
  /\ g_frag_received[0] /\ g_frag_received[1] /\ ~g_frag_received[2]
  /\ MissingFrags(g_frag_received, g_total_frags) = 20

\* C35: in every state of the receiver total_frags and the count of fragments
\* received are at most 22, the byte count is at most 245 times that count
\* and at most 5390, and each fragment handleAudioData stores is written
\* inside the 5390 bytes of the buffer and marked inside the 22 markers.
C35_CapacityBounds ==
  /\ [](/\ g_total_frags <= MAX_FRAGS
        /\ g_frags_rx <= MAX_FRAGS
        /\ g_audio_len <= LORA_MAX_DATA_PAYLOAD * g_frags_rx
        /\ g_audio_len <= MAX_AUDIO_BYTES
        /\ Len(g_audio_buf) = 5390
        /\ DOMAIN g_frag_received = 0..21)
  /\ [][(DataProcessed /\ rx_ret' = "data_ok")
          => /\ g_frags_rx \in 0..21
             /\ FragOffset(g_frags_rx) + PayloadLen <= 5390
             /\ PayloadLen <= LORA_MAX_DATA_PAYLOAD]_vars

\* the 22nd fragment of 245 bytes has filled the buffer
C35_Witness ==
  /\ rx_pc = "returned" /\ rx_ret = "data_ok"
  /\ g_frags_rx = 22
  /\ g_audio_len = 5390
  /\ g_frag_received[21]

\* C36: whenever handleAudioEnd invokes the audio sink, every marker below
\* the session's total_frags is set and the CRC-32 of the bytes delivered,
\* the first g_audio_len bytes of the buffer, equals the crc32 field of the
\* AUDIO_END frame being processed, whatever frames came before.
C36_DeliveryIntegrity ==
  [][(EndProcessed /\ rx_sink' # <<>>)
       => /\ Len(rx_sink') = 1
          /\ \A i \in 0..(g_total_frags - 1) : g_frag_received[i]
          /\ rx_sink'[1].len = g_audio_len
          /\ rx_sink'[1].buf = SubSeq(g_audio_buf, 1, g_audio_len)
          /\ crc32(rx_sink'[1].buf, rx_sink'[1].len)
               = deserializeAudioEnd(PayloadBuf).crc32]_vars

\* a transfer of 22 full fragments is delivered
C36_Witness ==
  /\ rx_pc = "returned" /\ rx_ret = "end_ok"
  /\ Len(rx_sink) = 1
  /\ rx_sink[1].len = 5390
  /\ g_total_frags = 22
  /\ \A i \in 0..21 : g_frag_received[i]
  /\ crc32(rx_sink[1].buf, 5390) = FullCrc22

\* C37: in RECEIVING, while every fragment accepted before had exactly 245
\* bytes, the first g_audio_len bytes of the buffer are the accepted payloads
\* one after the other in the order they came: an accepted AUDIO_START
\* leaves none, each accepted fragment appends its payload to what was there,
\* and no other step changes them.
C37_BufferContiguity ==
  [][/\ (ValidStartProcessed) => g_audio_len' = 0
     /\ (DataProcessed /\ rx_ret' = "data_ok"
           /\ g_audio_len = LORA_MAX_DATA_PAYLOAD * g_frags_rx)
          => /\ g_audio_len' = g_audio_len + PayloadLen
             /\ SubSeq(g_audio_buf', 1, g_audio_len')
                  = SubSeq(g_audio_buf, 1, g_audio_len) \o PayloadBuf
     /\ (g_state = STATE_RECEIVING /\ ~ValidStartProcessed
           /\ ~(DataProcessed /\ rx_ret' = "data_ok"))
          => /\ g_audio_len' = g_audio_len
             /\ g_audio_buf' = g_audio_buf]_vars

\* two full fragments and one of 22 bytes lie one after the other
C37_Witness ==
  /\ rx_pc = "returned" /\ rx_ret = "data_ok"
  /\ g_state = STATE_RECEIVING
  /\ g_frags_rx = 3
  /\ g_audio_len = 512
  /\ SubSeq(g_audio_buf, 1, 512) = FullData \o FullData \o TailData

\* C38: in RECEIVING with fewer than 22 fragments received, an AUDIO_DATA
\* frame for this node is stored at the next slot and acknowledged OK with
\* its own seq_num, whatever session_id, src_id, version and seq_num it
\* carries and however the count compares with total_frags.
C38_DataNotTiedToSession ==
  [][(DataProcessed /\ g_state = STATE_RECEIVING /\ g_frags_rx < MAX_FRAGS)
       => /\ rx_ret' = "data_ok"
          /\ rx_tx' = <<AckFrame(g_session_id, RdU16(rx_buf, 6),
                                 ACK_STATUS_OK)>>
          /\ g_frags_rx' = g_frags_rx + 1
          /\ g_frag_received'[g_frags_rx]
          /\ g_audio_len' = g_audio_len + PayloadLen
          /\ SubSeq(g_audio_buf', FragOffset(g_frags_rx) + 1,
                    FragOffset(g_frags_rx) + PayloadLen) = PayloadBuf
          /\ g_state' = STATE_RECEIVING
          /\ UNCHANGED <<g_session_id, g_total_frags>>]_vars

\* in the session 0xABCD of two fragments, a third fragment was stored and
\* acknowledged that named session 0x1234, source 7, version 2 and seq 2
C38_Witness ==
  /\ rx_pc = "returned" /\ rx_ret = "data_ok"
  /\ g_session_id = 43981
  /\ g_total_frags = 2
  /\ rx_from.frags_rx = 2
  /\ g_frags_rx = 3
  /\ rx_tx = <<AckFrame(43981, 2, ACK_STATUS_OK)>>
  /\ SubSeq(g_audio_buf, 491, 735) = FullData

\* C39: each call of waitForAck takes one frame from the radio and returns
\* by that frame alone: success exactly when it is an Ack(OK) for the
\* expected sequence number, whatever its dst_id and session_id, and failure
\* otherwise, even when the acknowledgment waited for comes right behind.
C39_WaitForAckOneFrame ==
  [][Called("waitForAck")
       => LET f == e_in'.rx_frame
              matching == /\ e_in'.rx_state = RADIOLIB_ERR_NONE
                          /\ Len(f) >= 13
                          /\ getType(f[1]) = PKT_ACK
                          /\ RdU16(f, 10) = e_in'.expected_seq
                          /\ f[13] = ACK_STATUS_OK
          IN /\ e_in'.rx_taken = <<f>>
             /\ matching => e_ret'
             /\ ~matching => ~e_ret']_vars

\* waitForAck heard the acknowledgment of another frame and returned false
\* although the one it waited for came behind it
C39_Witness ==
  /\ e_op = "waitForAck"
  /\ ~e_ret
  /\ e_in.rx_state = RADIOLIB_ERR_NONE
  /\ e_in.expected_seq = 7
  /\ IsAck(e_in.rx_frame, 8, ACK_STATUS_OK)
  /\ IsAck(e_in.rx_behind, 7, ACK_STATUS_OK)
  /\ Len(e_in.rx_taken) = 1

\* the acknowledgment status handleAudioEnd answers an AUDIO_END payload with
\* in the current state
EndStatus(payload) ==
  LET ep == deserializeAudioEnd(payload)
  IN IF MissingFrags(g_frag_received, ExpectedFrags(ep)) > 0
     THEN ACK_STATUS_MISSING
     ELSE IF EndCrcMatches(ep) THEN ACK_STATUS_OK ELSE ACK_STATUS_CRC_ERR

\* the payload with its frag_count field set to n
WithFragCount(payload, n) ==
  <<n % 256, n \div 256>> \o SubSeq(payload, 3, Len(payload))

\* the fragment counts an AUDIO_END frame may claim
ClaimedFragCounts == {0, 2, 22, 65535}

\* C40: AUDIO_END frames that differ only in frag_count, handled in the same
\* receiver state, are answered with the same status, leave the same state
\* and call the sink alike: status, state and sink call follow from the
\* state before and the frame's other fields.
C40_FragCountNotUsed ==
  [][EndProcessed
       => /\ \A n \in ClaimedFragCounts :
               EndStatus(WithFragCount(PayloadBuf, n)) = EndStatus(PayloadBuf)
          /\ rx_tx' = <<AckFrame(g_session_id, RdU16(rx_buf, 6),
                                 EndStatus(PayloadBuf))>>
          /\ rx_sink' = IF EndStatus(PayloadBuf) = ACK_STATUS_OK
                        THEN <<SinkCall>> ELSE <<>>
          /\ g_state' = STATE_IDLE
          /\ UNCHANGED <<g_audio_buf, g_frag_received, g_audio_len,
                         g_session_id, g_total_frags, g_frags_rx, g_codec_id,
                         g_sample_hz, g_duration_ms, g_total_size>>]_vars

\* in a session of two fragments with two received, the AUDIO_END claiming 22
\* fragments (seq 23) was not answered FRAGMENTS_MISSING: its crc32 was
\* compared
C40_Witness ==
  /\ rx_pc = "returned" /\ rx_ret = "end_crc"
  /\ g_session_id = 43981
  /\ g_total_frags = 2
  /\ g_frags_rx = 2
  /\ rx_tx = <<AckFrame(43981, 23, ACK_STATUS_CRC_ERR)>>
  /\ rx_sink = <<>>
  /\ g_state = STATE_IDLE

----------------------------------------------------------------------------
(* The two nodes on one channel with time on the air: the sender pauses     *)
(* delay(50) between fragments and never listens for their                  *)
(* acknowledgments; the receiver answers each fragment with a blocking      *)
(* radio.transmit. Neither sketch waits for the other: how long the         *)
(* receiver takes from the end of a frame to the start of its transmit, and *)
(* the sender from the end of its pause to the start of its own, is left to  *)
(* the boards.                                                              *)

\* delay(50); // Small inter-packet gap; tune to your duty cycle / SF
INTER_PACKET_GAP_MS == 50

\* time on the air of the 13 bytes of an acknowledgment at RX_SF 7,
\* RX_BW_KHZ 125 and RX_CR 4/5: 12.25 symbols of preamble and 33 of header,
\* payload and CRC, 1.024 ms each, rounded down
ACK_AIRTIME_MS == 46

\* the most either node takes between two radio calls, in milliseconds
MaxTurnaround == 6

\* the receiver is inside sendAck's radio.transmit
ReceiverTransmitting ==
  /\ rx_pc = "returned"
  /\ rx_tx # <<>>
  /\ since_ms < ack_at_ms + ACK_AIRTIME_MS

\* the sender is inside _radio.transmit
SenderTransmitting == air # <<>>

InitDuplex ==
  /\ InitTransfer
  /\ demo = 1

\* the sender's frame ends: its transmit returns and so does the receiver's
\* radio.receive, which will reach its handler's radio.transmit ack_at_ms
\* later
FrameEnds ==
  /\ air # <<>>
  /\ RadioReceive(RADIOLIB_ERR_NONE, air)
  /\ air' = <<>>
  /\ since_ms' = 0
  /\ ack_at_ms' \in 0..MaxTurnaround
  /\ UNCHANGED <<ch_lost, ch_flipped, tx_failed, sender, peer_credit, engine,
                 protocol>>

\* the receiver's handler has run up to its radio.transmit, or to its return
\* when it sends nothing
HandlerReached == since_ms = ack_at_ms

\* radio.transmit has returned in the receiver, whose loop() calls
\* receivePacket again
AckEnds == ~ReceiverTransmitting /\ RxLoop

\* waitForAck returns when the acknowledgment has been received in full, or
\* with nothing heard
WaitReturns == ~ReceiverTransmitting /\ (WaitStartAck \/ WaitEndAck)

\* the first fragment follows waitForAck at once, every later one and
\* AUDIO_END the delay(50) after the fragment before
GapElapsed ==
  /\ air = <<>>
  /\ l_frag = 0 \/ since_ms >= INTER_PACKET_GAP_MS

\* a millisecond passes while a node is between two radio calls, in
\* delay(50) or transmitting an acknowledgment
Tick ==
  /\ since_ms < INTER_PACKET_GAP_MS + MaxTurnaround
  /\ \/ rx_pc = "dispatch" /\ since_ms < ack_at_ms
     \/ ReceiverTransmitting
     \/ tx_pc = "data" /\ air = <<>> /\ l_frag > 0
  /\ ~(rx_pc = "dispatch" /\ HandlerReached)
  /\ ~(rx_pc = "returned" /\ ~ReceiverTransmitting)
  /\ since_ms' = since_ms + 1
  /\ UNCHANGED <<ack_at_ms, session, rxio, sender, channel, peer_credit,
                 engine, protocol>>

\* every transmit succeeds
NextDuplex ==
  \/ SendStart /\ air' # <<>>
  \/ WaitReturns
  \/ SendDataWhen(GapElapsed) /\ air' # <<>>
  \/ SendEndWhen(GapElapsed) /\ air' # <<>>
  \/ FrameEnds
  \/ HandlerReached /\ HandleAudioStart
  \/ HandlerReached /\ HandleAudioData
  \/ HandlerReached /\ HandleAudioEnd
  \/ AckEnds
  \/ Tick

SpecDuplex == InitDuplex /\ [][NextDuplex]_vars

\* C32: in the system of the sender's loop and the receiver's loop the two
\* nodes never transmit at once: the sender does not begin a frame while the
\* receiver is transmitting an acknowledgment.
C32_HalfDuplex == ~(SenderTransmitting /\ ReceiverTransmitting)

=============================================================================
